---- MODULE Spec2Model ----
(***************************************************************************)
(* Job lifecycle and scheduling subsystem of the fun-asr server:           *)
(* the serial engine queue, the v2 job engine, the v2 batch engine, the    *)
(* metadata store and the restart recovery scan.                           *)
(*                                                                         *)
(* Several specifications share the variables below.  Each one drives a    *)
(* part of the server together with the environment that part sees;        *)
(* variables a specification does not use stay at their initial values.    *)
(*   Spec       the serial engine queue under v1 / v2-job / v2-batch tasks *)
(*   SpecV2     one v2 record (a job or a batch) from its creation on,     *)
(*              with the cancel endpoint, the clock and restarts           *)
(*   SpecV2Fair SpecV2 in which the awaits of runV2Batch complete          *)
(***************************************************************************)
EXTENDS Integers, Sequences, FiniteSets, TLC

(***************************************************************************)
(* Bounds of the model.                                                    *)
(***************************************************************************)
MaxTasks == 3           \* submissions to the engine queue
MaxItems == 2           \* items of a batch (the server accepts 1..10)
MaxCalls == 2           \* SpecWorker: calls of runAsrViaPython
MaxRawLen == 2          \* SpecVad: characters of a raw VAD parameter
MaxWrites == 3          \* SpecWrite: calls of writeJsonAtomic on one path
MaxLoads == 2           \* SpecLoad: restarts of the process
MaxLost == 1            \* SpecLoad: artifact files that change during one outage
MaxRestarts == 1        \* restarts of the process

(***************************************************************************)
(* Program constants.                                                      *)
(***************************************************************************)
Concurrency == 1        \* new PQueue({ concurrency: 1 })

VARIABLES
    qWaiting,       \* PQueue's internal queue: task ids waiting, head first
    qRunning,       \* task ids whose function is executing
    taskKind,       \* task id -> "none" | "v1" | "job" | "batch"
    taskStatus,     \* task id -> "none" | "waiting" | "running" | "resolved" | "rejected" | "lost"
    nextTask,       \* id the next submission gets; ids follow submission order
    v2Batches,      \* the in-memory batch table: batch id -> batch record (NoBatch when absent)
    diskBatches,    \* batches/<id>/batch.json: batch id -> the record last written (NoBatch when absent)
    pcB,            \* batch id -> where runV2Batch is suspended
    batchTask,      \* batch id -> the queue task that runs it (0 when none)
    v2Jobs,         \* the in-memory job table: job id -> job record (NoJob when absent)
    diskJobs,       \* jobs-v2/<id>/job.json: job id -> the record last written (NoJob when absent)
    pcJ,            \* job id -> where runV2Job is suspended
    jobTask,        \* job id -> the queue task that runs it (0 when none)
    files,          \* the artifact files present: <<record id, item index (0 for a job), key>>
    inputs,         \* the input audio files present: <<record id, item index (0 for a job)>>
    metaFile,       \* SpecWrite: what is at the path of a metadata file
    tmpFiles,       \* SpecWrite: writer -> its temporary file
    pcW,            \* SpecWrite: writer -> where its writeJsonAtomic call is
    procs,          \* SpecWorker: recognizer subprocess -> unborn, starting, ready or exited
    workerChild,    \* SpecWorker: the child of the current PythonAsrWorker, 0 for none
    asrCall,        \* SpecWorker: where the current runAsrViaPython call is
    asrCalls,       \* SpecWorker: calls of runAsrViaPython so far
    lastPost,       \* SpecVad: the last create request and what the handler did with it
    pcP,            \* SpecPoll: which record is being produced and the await it is suspended in
    tableArtifacts, \* SpecPoll: the artifacts of that record in the in-memory table
    metaArtifacts,  \* SpecPoll: the artifacts in the last metadata write that completed
    polled,         \* SpecPoll: what the last status poll was answered
    committed,      \* SpecWrite: the versions renamed onto the path, oldest first
    scanAt,         \* SpecScan: startup scan ("jobs", "batches") -> off, readdir, loop or done
    scanEntries,    \* SpecScan: startup scan -> the directory entries it has still to visit
    scanReplaced,   \* SpecScan: the ids whose table entry the scan has set
    lastCreate,     \* SpecCreate: the last create request and what its handler left behind
    wProcs,         \* SpecSupervisor: recognizer subprocess -> unborn, starting, ready or exited
    wChild,         \* SpecSupervisor: this.child of the PythonAsrWorker, 0 for undefined
    wStarting,      \* SpecSupervisor: whether this.starting holds a promise
    wReady,         \* SpecSupervisor: this.ready
    wNextId,        \* SpecSupervisor: this.nextId
    wPending,       \* SpecSupervisor: the keys of this.pending
    wCalls,         \* SpecSupervisor: caller -> where its requestAsr call is and the id it was given
    wWaiters,       \* SpecSupervisor: the callers awaiting this.starting, first first
    wWrites,        \* SpecSupervisor: the requests written to stdin: id, subprocess, whether it had printed ready
    wSettled,       \* SpecSupervisor: request id -> how many times its promise was resolved or rejected
    issued,         \* the ids crypto.randomUUID() has handed out
    expired,        \* the records whose expiresAt the clock has passed
    restarts,       \* how many times the process was restarted
    diskFaults      \* whether writes of metadata files can fail in this run

queueVars == <<qWaiting, qRunning, taskKind, taskStatus, nextTask>>
batchVars == <<v2Batches, diskBatches, pcB, batchTask>>
jobVars == <<v2Jobs, diskJobs, pcJ, jobTask>>
writeVars == <<metaFile, tmpFiles, pcW, committed>>
vadVars == <<lastPost>>
workerVars == <<procs, workerChild, asrCall, asrCalls>>
pollVars == <<pcP, tableArtifacts, metaArtifacts, polled>>
scanVars == <<scanAt, scanEntries, scanReplaced>>
createVars == <<lastCreate>>
supVars == <<wProcs, wChild, wStarting, wReady, wNextId, wPending, wCalls, wWaiters, wWrites, wSettled>>
sideVars == <<writeVars, vadVars, workerVars, pollVars, scanVars, createVars, supVars>>
vars == <<qWaiting, qRunning, taskKind, taskStatus, nextTask,
          v2Batches, diskBatches, pcB, batchTask, v2Jobs, diskJobs, pcJ, jobTask,
          files, inputs, metaFile, tmpFiles, pcW, committed, lastPost,
          procs, workerChild, asrCall, asrCalls,
          pcP, tableArtifacts, metaArtifacts, polled,
          scanAt, scanEntries, scanReplaced,
          lastCreate,
          wProcs, wChild, wStarting, wReady, wNextId, wPending, wCalls, wWaiters, wWrites, wSettled,
          issued, expired, restarts, diskFaults>>

\* The concurrent callers of writeJsonAtomic on one path (runV2Batch and the
\* cancel endpoint persist the same batch.json).
Writers == {"engine", "endpoint"}

\* What is at a path: nothing (NoContent), or the JSON text of the record as
\* it was at call number `version`, written in part or completely.
NoContent == [version |-> 0, complete |-> FALSE]

\* The recognizer subprocesses that may be spawned: a call spawns at most two.
Pids == 1..(2 * MaxCalls)

\* No call of runAsrViaPython is under way.  `attempt` is 1 in the try block
\* and 2 in the catch block, `sends` counts the requests written to a
\* worker, `err` is the code of the error the call has thrown.
NoCall == [at |-> "idle", attempt |-> 0, sends |-> 0, err |-> "none"]

\* The callers of requestAsr on one PythonAsrWorker, the ids its requests
\* get, and the ids a result line can carry (one more than is ever given).
Callers == 1..MaxCalls
RequestIds == 1..MaxCalls
ResultIds == 1..(MaxCalls + 1)
NotCalled == [at |-> "idle", id |-> 0, outcome |-> "none"]

\* No create request has been validated yet.
NoCreate == [endpoint |-> "none", request |-> <<>>, status |-> 0, code |-> "none",
             dir |-> FALSE, moved |-> {}, recorded |-> FALSE, enqueued |-> FALSE]

\* The two startup scans: loadV2JobsFromDisk and loadV2BatchesFromDisk.
ScanKinds == {"jobs", "batches"}

\* No record is being produced; no status poll has been answered yet.
NotProduced == [kind |-> "none", await |-> 0]
NoPoll == [kind |-> "none", ready |-> {}, written |-> {}]

\* No create request has been handled yet.
NoPost == [endpoint |-> "none", query |-> <<>>, options |-> <<>>, status |-> "none", vad |-> <<>>]

TaskIds == 1..MaxTasks
TaskKinds == {"v1", "job", "batch"}
Settled == {"resolved", "rejected"}

(***************************************************************************)
(* SerialQueue: a PQueue with concurrency 1.                               *)
(***************************************************************************)

\* SerialQueue.pending: the tasks waiting for the slot.
pending == Len(qWaiting)

\* SerialQueue.running: the tasks in progress.
running == Cardinality(qRunning)

\* Faulty variant of Enqueue: the new task is put in front of the waiting ones
EnqueueFront(w, t) == <<t>> \o w

\* PQueue.add enqueues at the tail (all tasks have the same priority).
Enqueue(w, t) == Append(w, t)

\* Faulty variant of TryStart: a waiting task is started whether or not the slot is free
TryStartUnbounded(w, r) ==
    IF Len(w) > 0
    THEN [w |-> Tail(w), r |-> r \cup {Head(w)}]
    ELSE [w |-> w, r |-> r]

\* PQueue tryToStartAnother: when a task waits and fewer than `concurrency`
\* tasks are in progress, the head of the queue is dequeued and its function
\* is called.
TryStart(w, r) ==
    IF Len(w) > 0 /\ Cardinality(r) < Concurrency
    THEN [w |-> Tail(w), r |-> r \cup {Head(w)}]
    ELSE [w |-> w, r |-> r]

\* SerialQueue.add(task): enqueue, then try to start.
QAdd(w, r, t) == TryStart(Enqueue(w, t), r)

\* Faulty variant of QNext: a task that throws leaves the queue stalled
QNextPoisoned(w, r, t, outcome) ==
    IF outcome = "rejected" THEN [w |-> w, r |-> r \ {t}] ELSE TryStart(w, r \ {t})

\* PQueue's run wrapper: the promise add() returned is settled with the
\* task's result or error, and in both cases next() frees the slot and tries
\* to start another task.
QNext(w, r, t, outcome) == TryStart(w, r \ {t})

\* The status of every task after the queue moved from (w, r) to q.
StatusAfter(st, q) ==
    [u \in TaskIds |->
        IF u \in q.r THEN "running"
        ELSE IF \E k \in 1..Len(q.w) : q.w[k] = u THEN "waiting"
        ELSE st[u]]

(***************************************************************************)
(* Records of the v2 batch engine.  Timestamps are kept as "set or not";   *)
(* whether the clock has passed an expiresAt is the variable `expired`.    *)
(***************************************************************************)
BatchIds == {"b1"}
ArtifactKeys == {"srt", "vocals", "no_vocals", "demucs_zip", "result_zip"}

\* no `error` member; a message is the sequence of its words
NoError == [code |-> "none", message |-> <<>>]

\* The messages the batch engine records on a failed item.
ConvertFailedMessage == <<"Failed", "to", "convert", "input", "audio", "to", "wav", "mono", "16k">>
AsrFailedMessage == <<"ASR", "engine", "failed">>
DemucsFailedMessage == <<"Demucs", "failed", "to", "process", "input", "audio">>

\* artifacts: {}
NoArtifacts == [k \in ArtifactKeys |-> "none"]

\* The item materializeItem returns: queued, with ownedInput true for an
\* upload or a downloaded url and false for an audioPath.
NewItem(owned) ==
    [state |-> "queued", phase |-> "queued", startedAt |-> FALSE, finishedAt |-> FALSE,
     ownedInput |-> owned, artifacts |-> NoArtifacts, error |-> NoError]

\* The value standing for "no entry in the table / no batch.json".
NoBatch ==
    [state |-> "absent", phase |-> "validate", startedAt |-> FALSE, finishedAt |-> FALSE,
     expiresAt |-> FALSE, cancelRequested |-> FALSE,
     tasks |-> [asr |-> TRUE, demucs |-> TRUE], items |-> <<>>, error |-> NoError]

\* The mixes of inputs a request of n items is drawn from: every item owned
\* (uploads, urls), none owned (audioPath), or the two kinds alternating.
InputMixes(n) ==
    {[k \in 1..n |-> TRUE], [k \in 1..n |-> FALSE],
     [k \in 1..n |-> k % 2 = 1], [k \in 1..n |-> k % 2 = 0]}

\* The batch record POST /v2/batches builds.
NewBatch(asr, demucs, owned) ==
    [state |-> "queued", phase |-> "validate", startedAt |-> FALSE, finishedAt |-> FALSE,
     expiresAt |-> FALSE, cancelRequested |-> FALSE,
     tasks |-> [asr |-> asr, demucs |-> demucs],
     items |-> [k \in DOMAIN owned |-> NewItem(owned[k])], error |-> NoError]

\* Positions of runV2Batch: `at` is the await it is suspended in, `i` the
\* loop index (1-based: item i has idx i - 1), `err` the error it has thrown.
At(a, i) == [at |-> a, i |-> i, err |-> "none"]
Thrown(a, e) == [at |-> a, i |-> 0, err |-> e]
Idle == At("idle", 0)

\* ensureBatchArtifact: the item's artifact `key` is recorded ready.
ensureBatchArtifact(item, key) == [item EXCEPT !.artifacts[key] = "ready"]

\* Faulty variant of markBatchDone: the terminal transition leaves expiresAt unset
markBatchDoneNoExpiry(rec, state, phase, err) ==
    [rec EXCEPT !.state = state, !.phase = phase, !.finishedAt = TRUE,
                !.error = IF err = NoError THEN @ ELSE err]

\* markBatchDone: the terminal transition of a batch.
markBatchDone(rec, state, phase, err) ==
    [rec EXCEPT !.state = state, !.phase = phase, !.finishedAt = TRUE, !.expiresAt = TRUE,
                !.error = IF err = NoError THEN @ ELSE err]

\* cancelRemaining(fromIdx): the queued items from fromIdx on are canceled.
cancelRemaining(rec, fromIdx) ==
    [rec EXCEPT !.items = [k \in DOMAIN rec.items |->
        IF k >= fromIdx /\ rec.items[k].state = "queued"
        THEN [rec.items[k] EXCEPT !.state = "canceled", !.phase = "error", !.finishedAt = TRUE]
        ELSE rec.items[k]]]

\* Faulty variant of cancelCheck: the loop never looks at the flag
cancelCheckIgnored(rec) == FALSE

\* `if (batch.cancelRequested)` at the head of each loop iteration.
cancelCheck(rec) == rec.cancelRequested

\* The inputs runV2Batch has removed: the owned input of an item is removed
\* right before the item is set to succeeded, on both paths that do so.
ReleasedInputs(b, rec) ==
    {<<b, k>> : k \in {i \in DOMAIN rec.items :
                        rec.items[i].ownedInput /\ rec.items[i].state = "succeeded"}}

\* The inputs kept under the directory of batch b: uploads and downloads are
\* put in <outDir>/inputs, an audioPath input stays where the caller has it.
BatchDirInputs(b, rec) ==
    {<<b, k>> : k \in {i \in DOMAIN rec.items : rec.items[i].ownedInput}}

\* The files of the artifacts the record of batch b says are ready.
BatchFiles(b, rec) ==
    {f \in ({b} \X (1..Len(rec.items)) \X ArtifactKeys) :
        rec.items[f[2]].artifacts[f[3]] = "ready"}

\* Faulty variant of reconcile: the entries are taken as they are recorded.
reconcileTrusting(present, artifacts, id, k) == artifacts

\* The artifact entries read back against the file system: an entry that
\* exists is ready exactly when its file is among the files `present`.
reconcile(present, artifacts, id, k) ==
    [key \in ArtifactKeys |->
        IF artifacts[key] = "none" THEN "none"
        ELSE IF <<id, k, key>> \in present THEN "ready"
        ELSE "missing"]

\* An item fails with an error: state failed, phase error, finishedAt.
failItem(item, code, message) ==
    [item EXCEPT !.state = "failed", !.phase = "error", !.finishedAt = TRUE,
                 !.error = [code |-> code, message |-> message]]

\* An item has completed every task asked for.
succeedItem(item) == [item EXCEPT !.state = "succeeded", !.phase = "done", !.finishedAt = TRUE]

hasFailed(rec) == \E k \in DOMAIN rec.items : rec.items[k].state = "failed"
hasCanceled(rec) == \E k \in DOMAIN rec.items : rec.items[k].state = "canceled"

\* "Finalize batch state": the state the items give the batch.
finalState(rec) ==
    IF hasCanceled(rec) /\ ~hasFailed(rec) THEN "canceled"
    ELSE IF hasFailed(rec) THEN "failed"
    ELSE "succeeded"

\* The first lines of runV2Batch, run when the queue calls the task.
batchEntry(rec) == [rec EXCEPT !.state = "running", !.startedAt = TRUE, !.phase = "validate"]

(***************************************************************************)
(* Records of the v2 job engine.                                           *)
(***************************************************************************)
JobIds == {"j1"}
JobTypes == {"asr", "demucs", "asr-demucs"}

\* The value standing for "no entry in the table / no job.json".
NoJob ==
    [type |-> "asr", state |-> "absent", phase |-> "queued", startedAt |-> FALSE,
     finishedAt |-> FALSE, expiresAt |-> FALSE, cleanupAudioOnFinish |-> FALSE,
     artifacts |-> NoArtifacts, error |-> NoError]

\* The job record POST /v2/jobs builds; cleanupAudioOnFinish is true when the
\* input was uploaded or downloaded into the job folder.
NewJob(type, owned) ==
    [type |-> type, state |-> "queued", phase |-> "queued", startedAt |-> FALSE,
     finishedAt |-> FALSE, expiresAt |-> FALSE, cleanupAudioOnFinish |-> owned,
     artifacts |-> NoArtifacts, error |-> NoError]

\* The first lines of runV2Job, run when the queue calls the task.
jobEntry(rec) == [rec EXCEPT !.state = "running", !.startedAt = TRUE, !.phase = "queued"]

\* finalizeSuccess
finalizeSuccess(rec) ==
    [rec EXCEPT !.state = "succeeded", !.phase = "done", !.finishedAt = TRUE, !.expiresAt = TRUE]

\* The error codes a job record may carry.
JobErrorCodes == {"bad_request", "bad_audio", "engine_error", "internal_error"}

\* Faulty variant of finalizeFailure: the artifacts recorded so far are dropped.
finalizeFailureClearing(rec, err) ==
    [rec EXCEPT !.state = "failed", !.phase = "error", !.finishedAt = TRUE, !.expiresAt = TRUE,
                !.artifacts = NoArtifacts,
                !.error = [code |-> IF err.code \in JobErrorCodes THEN err.code
                                    ELSE "internal_error",
                           message |-> err.message]]

\* finalizeFailure(err): the code of err is kept when it is one of the four
\* job error codes, and is internal_error otherwise.
finalizeFailure(rec, err) ==
    [rec EXCEPT !.state = "failed", !.phase = "error", !.finishedAt = TRUE, !.expiresAt = TRUE,
                !.error = [code |-> IF err.code \in JobErrorCodes THEN err.code
                                    ELSE "internal_error",
                           message |-> err.message]]

\* The input kept under the directory of job j: an upload or a download is
\* moved to <outDir>/input.<ext>, an audioPath input stays where it is.
JobDirInputs(j, rec) == IF rec.cleanupAudioOnFinish THEN {<<j, 0>>} ELSE {}

\* GET /v2/jobs/:id/artifacts/:name answers with the file: the job is in the
\* table, the artifact is recorded ready, and the file is there to be sent.
downloadable(j, key) ==
    /\ v2Jobs[j] # NoJob
    /\ v2Jobs[j].artifacts[key] = "ready"
    /\ <<j, 0, key>> \in files

\* The files of the artifacts the record of job j says are ready.
JobFiles(j, rec) == {<<j, 0, key>> : key \in {k \in ArtifactKeys : rec.artifacts[k] = "ready"}}

\* Faulty variant of ensureV2Artifact: the artifact is not recorded.
ensureV2ArtifactUnrecorded(rec, key) == rec

\* ensureV2Artifact without its persist: the artifact `key` is recorded ready.
ensureV2Artifact(rec, key) == [rec EXCEPT !.artifacts[key] = "ready"]

\* Positions of runV2Job: `at` is the await it is suspended in, `err` the
\* error it has thrown.
JAt(a) == [at |-> a, err |-> NoError]
JThrown(a, code, message) == [at |-> a, err |-> [code |-> code, message |-> <<message>>]]
JIdle == JAt("idle")

(***************************************************************************)
(* Building blocks of the actions.                                         *)
(***************************************************************************)

\* writeJsonAtomic returns (TRUE) or throws (FALSE); it throws only in runs
\* in which the metadata directory can fail.
PersistOutcomes == IF diskFaults THEN BOOLEAN ELSE {TRUE}

\* The queue moves to q; st is the status table before the move.
QueueMoves(q, st) ==
    /\ qWaiting' = q.w
    /\ qRunning' = q.r
    /\ taskStatus' = StatusAfter(st, q)

\* The tasks in `started` are called by the queue: a batch task runs the
\* first lines of runV2Batch up to its first persist, which succeeds or throws
\* (that persist is outside the try block, so a throw rejects the task).
\* mem and disk are the tables as the acting handler leaves them, bt the
\* batch -> task map.
StartTasks(started, bt, mem, disk, pc) ==
    \E ok \in PersistOutcomes :
        /\ v2Batches' = [b \in BatchIds |->
                IF bt[b] \in started THEN batchEntry(mem[b]) ELSE mem[b]]
        /\ diskBatches' = [b \in BatchIds |->
                IF bt[b] \in started /\ ok THEN batchEntry(mem[b]) ELSE disk[b]]
        /\ pcB' = [b \in BatchIds |->
                IF bt[b] \in started
                THEN (IF ok THEN At("validate", 0) ELSE Thrown("threw", "persist"))
                ELSE pc[b]]

\* The tasks the queue calls when task t ends with `outcome`.
Started(t, outcome) == QNext(qWaiting, qRunning, t, outcome).r \ qRunning

\* The same for job tasks: the first lines of runV2Job up to its first
\* persist, which is outside the try block too.
StartJobs(started, jt, mem, disk, pc) ==
    \E ok \in PersistOutcomes :
        /\ v2Jobs' = [j \in JobIds |->
                IF jt[j] \in started THEN jobEntry(mem[j]) ELSE mem[j]]
        /\ diskJobs' = [j \in JobIds |->
                IF jt[j] \in started /\ ok THEN jobEntry(mem[j]) ELSE disk[j]]
        /\ pcJ' = [j \in JobIds |->
                IF jt[j] \in started
                THEN (IF ok THEN JAt("entered") ELSE JThrown("threw", "EIO", "persist"))
                ELSE pc[j]]

\* runV2Job sets the record of j to rec and awaits persistV2Job: the write
\* succeeds and it goes on to `to`, or it throws into the catch block.
JobPersistStep(j, rec, ok, to) ==
    /\ v2Jobs' = [v2Jobs EXCEPT ![j] = rec]
    /\ diskJobs' = IF ok THEN [diskJobs EXCEPT ![j] = rec] ELSE diskJobs
    /\ pcJ' = [pcJ EXCEPT ![j] = IF ok THEN to ELSE JThrown("catch", "EIO", "persist")]

\* runV2Batch sets the record of b to rec and awaits persistV2Batch: the
\* write succeeds and it goes on to `to`, or it throws into the catch block.
PersistStep(b, rec, ok, to) ==
    /\ v2Batches' = [v2Batches EXCEPT ![b] = rec]
    /\ diskBatches' = IF ok THEN [diskBatches EXCEPT ![b] = rec] ELSE diskBatches
    /\ pcB' = [pcB EXCEPT ![b] = IF ok THEN to ELSE Thrown("catch", "persist")]

\* expiresAt = now + TTL is assigned to record id when `assigned`: the
\* clock has not passed the new value.
ExpiryAssigned(id, assigned) ==
    expired' = IF assigned THEN expired \ {id} ELSE expired

(***************************************************************************)
(* The engine queue seen from its submitters.  POST /v1/asr, /v1/demucs    *)
(* and /v1/demucs-asr await queue.add(job); POST /v2/jobs and POST         *)
(* /v2/batches add a task and attach a catch handler.  In Spec the task    *)
(* bodies are opaque: a running task ends by returning or by throwing.     *)
(***************************************************************************)

\* A handler submits a task of kind k to the shared queue.
Submit(k) ==
    /\ nextTask <= MaxTasks
    /\ LET t == nextTask
           q == QAdd(qWaiting, qRunning, t)
       IN /\ QueueMoves(q, [taskStatus EXCEPT ![t] = "waiting"])
          /\ taskKind' = [taskKind EXCEPT ![t] = k]
          /\ nextTask' = nextTask + 1
    /\ UNCHANGED <<batchVars, jobVars, issued, expired, restarts, diskFaults, files, inputs, sideVars>>

SubmitV1 == Submit("v1")
SubmitJob == Submit("job")
SubmitBatch == Submit("batch")

\* The running task t ends with `outcome`; the queue settles the submitter's
\* promise and moves on.
Settle(t, outcome) ==
    /\ t \in qRunning
    /\ QueueMoves(QNext(qWaiting, qRunning, t, outcome), [taskStatus EXCEPT ![t] = outcome])
    /\ UNCHANGED <<taskKind, nextTask>>

TaskReturns ==
    \E t \in TaskIds : Settle(t, "resolved") /\ UNCHANGED <<batchVars, jobVars, issued, expired, restarts, diskFaults, files, inputs, sideVars>>

TaskThrows ==
    \E t \in TaskIds : Settle(t, "rejected") /\ UNCHANGED <<batchVars, jobVars, issued, expired, restarts, diskFaults, files, inputs, sideVars>>

(***************************************************************************)
(* The batch endpoints.                                                    *)
(***************************************************************************)

\* A v1 request is being served when the batch arrives: its task is the
\* first one submitted.
V1Arrives ==
    /\ nextTask = 1
    /\ Submit("v1")

\* The v1 task ends; a batch task waiting behind it is started.
V1Ends(t, outcome) ==
    /\ taskKind[t] = "v1"
    /\ Settle(t, outcome)
    /\ StartTasks(Started(t, outcome), batchTask, v2Batches, diskBatches, pcB)
    /\ StartJobs(Started(t, outcome), jobTask, v2Jobs, diskJobs, pcJ)
    /\ UNCHANGED <<batchTask, jobTask, issued, expired, restarts, diskFaults, files, inputs, sideVars>>

V1Returns == \E t \in TaskIds : V1Ends(t, "resolved")
V1Throws == \E t \in TaskIds : V1Ends(t, "rejected")

\* POST /v2/batches with n valid items: the record is built, put in the table
\* and persisted, then the task is added to the queue.  When the persist
\* throws the request fails after v2Batches.set and nothing is enqueued.
CreateBatch(b) ==
    /\ b \notin issued
    /\ nextTask <= MaxTasks
    /\ issued' = issued \cup {b}
    /\ \E n \in 1..MaxItems, asr \in BOOLEAN, demucs \in BOOLEAN, ok \in PersistOutcomes :
         \E owned \in InputMixes(n) :
            LET rec == NewBatch(asr, demucs, owned)
                t == nextTask
                q == QAdd(qWaiting, qRunning, t)
                bt == [batchTask EXCEPT ![b] = t]
            IN IF ok
               THEN /\ QueueMoves(q, [taskStatus EXCEPT ![t] = "waiting"])
                    /\ taskKind' = [taskKind EXCEPT ![t] = "batch"]
                    /\ nextTask' = nextTask + 1
                    /\ batchTask' = bt
                    /\ StartTasks(q.r \ qRunning, bt,
                                  [v2Batches EXCEPT ![b] = rec], [diskBatches EXCEPT ![b] = rec], pcB)
               ELSE /\ v2Batches' = [v2Batches EXCEPT ![b] = rec]
                    /\ UNCHANGED <<queueVars, diskBatches, pcB, batchTask>>
    /\ inputs' = inputs \cup {<<b, k>> : k \in 1..Len(v2Batches'[b].items)}
    /\ UNCHANGED <<jobVars, expired, restarts, diskFaults, files, sideVars>>

\* POST /v2/batches/:id/cancel: the flag is set on the record found in the
\* table and the record is persisted.
CancelBatch(b) ==
    /\ v2Batches[b] # NoBatch
    /\ \E ok \in PersistOutcomes :
         LET rec == [v2Batches[b] EXCEPT !.cancelRequested = TRUE]
         IN /\ v2Batches' = [v2Batches EXCEPT ![b] = rec]
            /\ diskBatches' = IF ok THEN [diskBatches EXCEPT ![b] = rec] ELSE diskBatches
    /\ UNCHANGED <<queueVars, jobVars, pcB, batchTask, issued, expired, restarts, diskFaults, files, inputs, sideVars>>

(***************************************************************************)
(* runV2Batch, one action per await it resumes from.                       *)
(***************************************************************************)

\* runV2Batch is executing for b.
Runs(b) == batchTask[b] \in qRunning

\* What follows the stage-1 loop: stage 2 when demucs is asked for, else the
\* "Finalize batch state" block.
AfterStage1(b, rec, ok) ==
    IF rec.tasks.demucs
    THEN /\ PersistStep(b, [rec EXCEPT !.phase = "demucs"], ok, At("s2", 1))
         /\ UNCHANGED expired
    ELSE /\ PersistStep(b, markBatchDone(rec, finalState(rec), "done", NoError), ok, At("done", 0))
         /\ ExpiryAssigned(b, TRUE)

\* After the first persist: stage 1 is entered when asr is asked for.
EnterStages(b) ==
    /\ Runs(b)
    /\ pcB[b].at = "validate"
    /\ \E ok \in PersistOutcomes :
         IF v2Batches[b].tasks.asr
         THEN /\ PersistStep(b, [v2Batches[b] EXCEPT !.phase = "asr"], ok, At("s1", 1))
              /\ UNCHANGED expired
         ELSE AfterStage1(b, v2Batches[b], ok)
    /\ UNCHANGED <<queueVars, jobVars, batchTask, issued, restarts, diskFaults, files, inputs, sideVars>>

\* Faulty variant of NextInStage1: the item goes on to Demucs before the next item's ASR
NextInStage1ItemFirst(i) == At("s2", i)

\* Stage 1 goes on with the next index once item i is dealt with.
NextInStage1(i) == At("s1", i + 1)

\* Faulty variant of skipsItem: no item is passed over.
skipsItemNever(item) == FALSE

\* `if (it.state !== "queued") continue;` at the head of both loops.
skipsItem(item) == item.state # "queued"

\* The head of the stage-1 loop for index i: the loop ends, or the cancel
\* flag is seen, or the item is skipped, or the item is started.
Stage1Head(b) ==
    /\ Runs(b)
    /\ pcB[b].at = "s1"
    /\ LET rec == v2Batches[b]
           i == pcB[b].i
       IN \E ok \in PersistOutcomes :
            IF i > Len(rec.items) THEN AfterStage1(b, rec, ok)
            ELSE IF cancelCheck(rec)
            THEN /\ PersistStep(b, cancelRemaining(rec, i), ok, At("cancel", i))
                 /\ UNCHANGED expired
            ELSE IF skipsItem(rec.items[i])
            THEN /\ pcB' = [pcB EXCEPT ![b] = NextInStage1(i)]
                 /\ UNCHANGED <<v2Batches, diskBatches, expired>>
            ELSE /\ PersistStep(b, [rec EXCEPT !.items[i].state = "running",
                                               !.items[i].startedAt = TRUE,
                                               !.items[i].phase = "asr_convert"],
                                ok, At("s1_convert", i))
                 /\ UNCHANGED expired
    /\ UNCHANGED <<queueVars, jobVars, batchTask, issued, restarts, diskFaults, files, inputs, sideVars>>

\* After cancelRemaining: markBatchDone("canceled", "done") and return.
MarkCanceled(b) ==
    /\ Runs(b)
    /\ pcB[b].at = "cancel"
    /\ \E ok \in PersistOutcomes :
         PersistStep(b, markBatchDone(v2Batches[b], "canceled", "done", NoError), ok, At("done", 0))
    /\ ExpiryAssigned(b, TRUE)
    /\ UNCHANGED <<queueVars, jobVars, batchTask, issued, restarts, diskFaults, files, inputs, sideVars>>

\* convertToWavMono16k returns or throws for item i.
TranscodeDone(b) ==
    /\ Runs(b)
    /\ pcB[b].at = "s1_convert"
    /\ LET rec == v2Batches[b]
           i == pcB[b].i
       IN \E ok \in PersistOutcomes, out \in {"ok", "fail"} :
            IF out = "fail"
            THEN PersistStep(b, [rec EXCEPT !.items[i] = failItem(@, "bad_audio", ConvertFailedMessage)],
                             ok, NextInStage1(i))
            ELSE PersistStep(b, [rec EXCEPT !.items[i].phase = "asr"], ok, At("s1_asr", i))
    /\ UNCHANGED <<queueVars, jobVars, batchTask, issued, expired, restarts, diskFaults, files, inputs, sideVars>>

\* runAsrViaPython returns or throws for item i; on success the srt is moved
\* to output.srt (rename, else copy, which can throw), recorded, and the item
\* is done (asr only) or goes back to queued for stage 2.
RecognizeDone(b) ==
    /\ Runs(b)
    /\ pcB[b].at = "s1_asr"
    /\ LET rec == v2Batches[b]
           i == pcB[b].i
       IN \E ok \in PersistOutcomes, out \in {"ok", "PY_ASR_FAILED", "other", "relocation"} :
            CASE out = "PY_ASR_FAILED" ->
                    PersistStep(b, [rec EXCEPT !.items[i] = failItem(@, "engine_error", AsrFailedMessage)],
                                ok, NextInStage1(i))
              [] out = "other" ->
                    PersistStep(b, [rec EXCEPT !.items[i] = failItem(@, "internal_error", AsrFailedMessage)],
                                ok, NextInStage1(i))
              [] out = "relocation" ->
                    /\ pcB' = [pcB EXCEPT ![b] = Thrown("catch", "relocation")]
                    /\ UNCHANGED <<v2Batches, diskBatches>>
              [] out = "ok" ->
                    LET it == ensureBatchArtifact(rec.items[i], "srt")
                        fin == IF rec.tasks.demucs
                               THEN [it EXCEPT !.state = "queued", !.phase = "queued"]
                               ELSE succeedItem(it)
                    IN PersistStep(b, [rec EXCEPT !.items[i] = fin], ok, NextInStage1(i))
    /\ files' = files \cup BatchFiles(b, v2Batches'[b])
    /\ inputs' = inputs \ ReleasedInputs(b, v2Batches'[b])
    /\ UNCHANGED sideVars
    /\ UNCHANGED <<queueVars, jobVars, batchTask, issued, expired, restarts, diskFaults>>

\* The head of the stage-2 loop for index i.
Stage2Head(b) ==
    /\ Runs(b)
    /\ pcB[b].at = "s2"
    /\ LET rec == v2Batches[b]
           i == pcB[b].i
       IN \E ok \in PersistOutcomes :
            IF i > Len(rec.items)
            THEN /\ PersistStep(b, markBatchDone(rec, finalState(rec), "done", NoError),
                                ok, At("done", 0))
                 /\ ExpiryAssigned(b, TRUE)
            ELSE IF cancelCheck(rec)
            THEN /\ PersistStep(b, cancelRemaining(rec, i), ok, At("cancel", i))
                 /\ UNCHANGED expired
            ELSE IF skipsItem(rec.items[i])
            THEN /\ pcB' = [pcB EXCEPT ![b] = At("s2", i + 1)]
                 /\ UNCHANGED <<v2Batches, diskBatches, expired>>
            ELSE /\ PersistStep(b, [rec EXCEPT !.items[i].state = "running",
                                               !.items[i].phase = "demucs",
                                               !.items[i].startedAt = TRUE],
                                ok, At("s2_demucs", i))
                 /\ UNCHANGED expired
    /\ UNCHANGED <<queueVars, jobVars, batchTask, issued, restarts, diskFaults, files, inputs, sideVars>>

\* runDemucs returns or throws for item i; on success the stems are copied
\* (copyTo can throw) and recorded.
DemucsDone(b) ==
    /\ Runs(b)
    /\ pcB[b].at = "s2_demucs"
    /\ LET rec == v2Batches[b]
           i == pcB[b].i
       IN \E ok \in PersistOutcomes, out \in {"ok", "fail", "copy"} :
            CASE out = "fail" ->
                    PersistStep(b, [rec EXCEPT !.items[i] = failItem(@, "bad_audio", DemucsFailedMessage)],
                                ok, At("s2", i + 1))
              [] out = "copy" ->
                    /\ pcB' = [pcB EXCEPT ![b] = Thrown("catch", "copy")]
                    /\ UNCHANGED <<v2Batches, diskBatches>>
              [] out = "ok" ->
                    LET it == ensureBatchArtifact(ensureBatchArtifact(rec.items[i], "vocals"),
                                                  "no_vocals")
                    IN PersistStep(b, [rec EXCEPT !.items[i] = [it EXCEPT !.phase = "zip_demucs"]],
                                   ok, At("s2_zip", i))
    /\ files' = files \cup BatchFiles(b, v2Batches'[b])
    /\ inputs' = inputs \ ReleasedInputs(b, v2Batches'[b])
    /\ UNCHANGED sideVars
    /\ UNCHANGED <<queueVars, jobVars, batchTask, issued, expired, restarts, diskFaults>>

\* createZipViaPython(demucs.zip) returns or throws for item i.
ZipDemucsDone(b) ==
    /\ Runs(b)
    /\ pcB[b].at = "s2_zip"
    /\ LET rec == v2Batches[b]
           i == pcB[b].i
       IN \E ok \in PersistOutcomes, out \in {"ok", "throw"} :
            IF out = "throw"
            THEN /\ pcB' = [pcB EXCEPT ![b] = Thrown("catch", "zip")]
                 /\ UNCHANGED <<v2Batches, diskBatches>>
            ELSE LET it == ensureBatchArtifact(rec.items[i], "demucs_zip")
                 IN IF rec.tasks.asr /\ it.artifacts["srt"] = "ready"
                    THEN PersistStep(b, [rec EXCEPT !.items[i] = [it EXCEPT !.phase = "zip_result"]],
                                     ok, At("s2_zipresult", i))
                    ELSE PersistStep(b, [rec EXCEPT !.items[i] = succeedItem(it)],
                                     ok, At("s2", i + 1))
    /\ files' = files \cup BatchFiles(b, v2Batches'[b])
    /\ inputs' = inputs \ ReleasedInputs(b, v2Batches'[b])
    /\ UNCHANGED sideVars
    /\ UNCHANGED <<queueVars, jobVars, batchTask, issued, expired, restarts, diskFaults>>

\* createZipViaPython(result.zip) returns or throws for item i.
ZipResultDone(b) ==
    /\ Runs(b)
    /\ pcB[b].at = "s2_zipresult"
    /\ LET rec == v2Batches[b]
           i == pcB[b].i
       IN \E ok \in PersistOutcomes, out \in {"ok", "throw"} :
            IF out = "throw"
            THEN /\ pcB' = [pcB EXCEPT ![b] = Thrown("catch", "zip")]
                 /\ UNCHANGED <<v2Batches, diskBatches>>
            ELSE PersistStep(b, [rec EXCEPT !.items[i] =
                                    succeedItem(ensureBatchArtifact(@, "result_zip"))],
                             ok, At("s2", i + 1))
    /\ files' = files \cup BatchFiles(b, v2Batches'[b])
    /\ inputs' = inputs \ ReleasedInputs(b, v2Batches'[b])
    /\ UNCHANGED sideVars
    /\ UNCHANGED <<queueVars, jobVars, batchTask, issued, expired, restarts, diskFaults>>

\* The catch block of runV2Batch: markBatchDone("failed", "error", ...); when
\* that persist throws too, runV2Batch rejects.
BatchCatch(b) ==
    /\ Runs(b)
    /\ pcB[b].at = "catch"
    /\ \E ok \in PersistOutcomes :
         /\ v2Batches' = [v2Batches EXCEPT ![b] =
                markBatchDone(@, "failed", "error",
                              [code |-> "internal_error", message |-> <<pcB[b].err>>])]
         /\ diskBatches' = IF ok THEN [diskBatches EXCEPT ![b] = v2Batches'[b]] ELSE diskBatches
         /\ pcB' = [pcB EXCEPT ![b] = IF ok THEN At("done", 0) ELSE Thrown("threw", "persist")]
    /\ ExpiryAssigned(b, TRUE)
    /\ UNCHANGED <<queueVars, jobVars, batchTask, issued, restarts, diskFaults, files, inputs, sideVars>>

\* runV2Batch has returned: the task resolves and the queue moves on.
BatchReturns(b) ==
    /\ Runs(b)
    /\ pcB[b].at = "done"
    /\ Settle(batchTask[b], "resolved")
    /\ StartTasks(Started(batchTask[b], "resolved"), batchTask, v2Batches, diskBatches,
                  [pcB EXCEPT ![b] = Idle])
    /\ StartJobs(Started(batchTask[b], "resolved"), jobTask, v2Jobs, diskJobs, pcJ)
    /\ UNCHANGED <<batchTask, jobTask, issued, expired, restarts, diskFaults, files, inputs, sideVars>>

\* runV2Batch has thrown: the task rejects, the queue moves on, and the catch
\* handler of POST /v2/batches marks the batch failed and persists it.
BatchThrows(b) ==
    /\ Runs(b)
    /\ pcB[b].at = "threw"
    /\ Settle(batchTask[b], "rejected")
    /\ \E ok \in PersistOutcomes :
         LET rec == [v2Batches[b] EXCEPT
                        !.state = "failed", !.phase = "error", !.finishedAt = TRUE,
                        !.expiresAt = TRUE,
                        !.error = [code |-> "internal_error", message |-> <<pcB[b].err>>]]
         IN StartTasks(Started(batchTask[b], "rejected"), batchTask,
                       [v2Batches EXCEPT ![b] = rec],
                       IF ok THEN [diskBatches EXCEPT ![b] = rec] ELSE diskBatches,
                       [pcB EXCEPT ![b] = Idle])
    /\ StartJobs(Started(batchTask[b], "rejected"), jobTask, v2Jobs, diskJobs, pcJ)
    /\ ExpiryAssigned(b, TRUE)
    /\ UNCHANGED <<batchTask, jobTask, issued, restarts, diskFaults, files, inputs, sideVars>>

(***************************************************************************)
(* POST /v2/jobs and runV2Job, one action per await it resumes from.       *)
(***************************************************************************)

\* POST /v2/jobs with a valid request: the record is built, put in the table
\* and persisted, then the task is added to the queue.  When the persist
\* throws the request fails after v2Jobs.set and nothing is enqueued.
CreateJob(j) ==
    /\ j \notin issued
    /\ nextTask <= MaxTasks
    /\ issued' = issued \cup {j}
    /\ \E type \in JobTypes, owned \in BOOLEAN, ok \in PersistOutcomes :
            LET rec == NewJob(type, owned)
                t == nextTask
                q == QAdd(qWaiting, qRunning, t)
                jt == [jobTask EXCEPT ![j] = t]
            IN IF ok
               THEN /\ QueueMoves(q, [taskStatus EXCEPT ![t] = "waiting"])
                    /\ taskKind' = [taskKind EXCEPT ![t] = "job"]
                    /\ nextTask' = nextTask + 1
                    /\ jobTask' = jt
                    /\ StartJobs(q.r \ qRunning, jt,
                                 [v2Jobs EXCEPT ![j] = rec], [diskJobs EXCEPT ![j] = rec], pcJ)
               ELSE /\ v2Jobs' = [v2Jobs EXCEPT ![j] = rec]
                    /\ UNCHANGED <<queueVars, diskJobs, pcJ, jobTask>>
    /\ inputs' = inputs \cup {<<j, 0>>}
    /\ UNCHANGED <<batchVars, expired, restarts, diskFaults, files, sideVars>>

\* runV2Job is executing for j.
JobRuns(j) == jobTask[j] \in qRunning

\* What the job actions leave alone.
JobFrame == UNCHANGED <<queueVars, batchVars, jobTask, issued, restarts, diskFaults>>

\* finalizeSuccess() and the persist that follows it.
JobSucceeds(j, rec, ok) ==
    /\ JobPersistStep(j, finalizeSuccess(rec), ok, JAt("finally"))
    /\ ExpiryAssigned(j, TRUE)

\* Faulty variant of hasDemucsStage: the type is not looked at.
hasDemucsStageAlways(type) == TRUE

\* The guard of the Demucs stage of runV2Job.
hasDemucsStage(type) == type \in {"demucs", "asr-demucs"}

\* "Demucs stage (optional)" is reached: it is entered for demucs and
\* asr-demucs jobs, and an asr job is finished.
JobToDemucs(j, rec, ok) ==
    IF hasDemucsStage(rec.type)
    THEN /\ JobPersistStep(j, [rec EXCEPT !.phase = "demucs"], ok, JAt("demucs"))
         /\ UNCHANGED expired
    ELSE JobSucceeds(j, rec, ok)

\* Faulty variant of hasAsrStage: every job goes through the ASR stage.
hasAsrStageAlways(type) == TRUE

\* "ASR stage (optional)": the test that guards it.
hasAsrStage(type) == type \in {"asr", "asr-demucs"}

\* The entries createZipViaPython is given for result.zip: the files of the
\* srt, vocals and no_vocals artifacts of the record, under these names.
resultZipEntries(rec) ==
    {<<"srt", "output.srt">>, <<"vocals", "vocals.mp3">>, <<"no_vocals", "no_vocals.mp3">>}

\* After the first persist: the ASR stage is entered for asr and asr-demucs.
JobEnter(j) ==
    /\ JobRuns(j)
    /\ pcJ[j].at = "entered"
    /\ \E ok \in PersistOutcomes :
         IF hasAsrStage(v2Jobs[j].type)
         THEN /\ JobPersistStep(j, [v2Jobs[j] EXCEPT !.phase = "asr_convert"], ok, JAt("convert"))
              /\ UNCHANGED expired
         ELSE JobToDemucs(j, v2Jobs[j], ok)
    /\ UNCHANGED <<files, inputs, sideVars>>
    /\ JobFrame

\* convertToWavMono16k ends: a failure is rethrown as bad_audio.
JobConvertDone(j) ==
    /\ JobRuns(j)
    /\ pcJ[j].at = "convert"
    /\ \E done \in BOOLEAN, ok \in PersistOutcomes :
         IF done
         THEN JobPersistStep(j, [v2Jobs[j] EXCEPT !.phase = "asr"], ok, JAt("recognize"))
         ELSE /\ pcJ' = [pcJ EXCEPT ![j] = JThrown("catch", "bad_audio", "convert")]
              /\ UNCHANGED <<v2Jobs, diskJobs>>
    /\ UNCHANGED expired
    /\ UNCHANGED <<files, inputs, sideVars>>
    /\ JobFrame

\* runAsrViaPython ends and output.srt is put in place: a worker failure is
\* rethrown as engine_error, any other failure of the call as internal_error,
\* and a failure to move the file is thrown as it is.
JobRecognizeDone(j) ==
    /\ JobRuns(j)
    /\ pcJ[j].at = "recognize"
    /\ \E outcome \in {"ok", "PY_ASR_FAILED", "other", "relocation"}, ok \in PersistOutcomes :
         CASE outcome = "ok" ->
                JobPersistStep(j, ensureV2Artifact(v2Jobs[j], "srt"), ok, JAt("after_asr"))
           [] outcome = "PY_ASR_FAILED" ->
                /\ pcJ' = [pcJ EXCEPT ![j] = JThrown("catch", "engine_error", "asr")]
                /\ UNCHANGED <<v2Jobs, diskJobs>>
           [] outcome = "other" ->
                /\ pcJ' = [pcJ EXCEPT ![j] = JThrown("catch", "internal_error", "asr")]
                /\ UNCHANGED <<v2Jobs, diskJobs>>
           [] outcome = "relocation" ->
                /\ pcJ' = [pcJ EXCEPT ![j] = JThrown("catch", "EIO", "relocate")]
                /\ UNCHANGED <<v2Jobs, diskJobs>>
    /\ UNCHANGED expired
    /\ files' = files \cup JobFiles(j, v2Jobs'[j])
    /\ UNCHANGED <<inputs, sideVars>>
    /\ JobFrame

\* The ASR stage is over.
JobAfterAsr(j) ==
    /\ JobRuns(j)
    /\ pcJ[j].at = "after_asr"
    /\ \E ok \in PersistOutcomes : JobToDemucs(j, v2Jobs[j], ok)
    /\ UNCHANGED <<files, inputs, sideVars>>
    /\ JobFrame

\* runDemucs ends and the two stems are copied: a failure of Demucs or of a
\* copy is thrown as it is; else vocals is published.
JobDemucsDone(j) ==
    /\ JobRuns(j)
    /\ pcJ[j].at = "demucs"
    /\ \E outcome \in {"ok", "DEMUCS_FAILED", "copy"}, ok \in PersistOutcomes :
         CASE outcome = "ok" ->
                JobPersistStep(j, ensureV2Artifact(v2Jobs[j], "vocals"), ok, JAt("vocals_ready"))
           [] outcome = "DEMUCS_FAILED" ->
                /\ pcJ' = [pcJ EXCEPT ![j] = JThrown("catch", "DEMUCS_FAILED", "demucs")]
                /\ UNCHANGED <<v2Jobs, diskJobs>>
           [] outcome = "copy" ->
                /\ pcJ' = [pcJ EXCEPT ![j] = JThrown("catch", "EIO", "copy")]
                /\ UNCHANGED <<v2Jobs, diskJobs>>
    /\ UNCHANGED expired
    /\ files' = files \cup JobFiles(j, v2Jobs'[j])
                \cup (IF v2Jobs'[j].artifacts["vocals"] = "ready"
                      THEN {<<j, 0, "no_vocals">>} ELSE {})
    /\ UNCHANGED <<inputs, sideVars>>
    /\ JobFrame

\* no_vocals is published.
JobPublishNoVocals(j) ==
    /\ JobRuns(j)
    /\ pcJ[j].at = "vocals_ready"
    /\ \E ok \in PersistOutcomes :
         JobPersistStep(j, ensureV2Artifact(v2Jobs[j], "no_vocals"), ok, JAt("stems_ready"))
    /\ UNCHANGED expired
    /\ UNCHANGED <<files, inputs, sideVars>>
    /\ JobFrame

\* The job goes on to pack the stems.
JobEnterZipDemucs(j) ==
    /\ JobRuns(j)
    /\ pcJ[j].at = "stems_ready"
    /\ \E ok \in PersistOutcomes :
         JobPersistStep(j, [v2Jobs[j] EXCEPT !.phase = "zip_demucs"], ok, JAt("zip_demucs"))
    /\ UNCHANGED expired
    /\ UNCHANGED <<files, inputs, sideVars>>
    /\ JobFrame

\* createZipViaPython for demucs.zip ends.
JobZipDemucsDone(j) ==
    /\ JobRuns(j)
    /\ pcJ[j].at = "zip_demucs"
    /\ \E done \in BOOLEAN, ok \in PersistOutcomes :
         IF done
         THEN JobPersistStep(j, ensureV2Artifact(v2Jobs[j], "demucs_zip"), ok, JAt("after_demucs"))
         ELSE /\ pcJ' = [pcJ EXCEPT ![j] = JThrown("catch", "ZIP_FAILED", "zip")]
              /\ UNCHANGED <<v2Jobs, diskJobs>>
    /\ UNCHANGED expired
    /\ files' = files \cup JobFiles(j, v2Jobs'[j])
    /\ UNCHANGED <<inputs, sideVars>>
    /\ JobFrame

\* "Result bundle (only for combined job)": entered when the three parts are
\* ready, else the job is finished.
JobAfterDemucs(j) ==
    /\ JobRuns(j)
    /\ pcJ[j].at = "after_demucs"
    /\ LET rec == v2Jobs[j]
       IN \E ok \in PersistOutcomes :
            IF /\ rec.type = "asr-demucs"
               /\ \A k \in {"srt", "vocals", "no_vocals"} : rec.artifacts[k] = "ready"
            THEN /\ JobPersistStep(j, [rec EXCEPT !.phase = "zip_result"], ok, JAt("zip_result"))
                 /\ UNCHANGED expired
            ELSE JobSucceeds(j, rec, ok)
    /\ UNCHANGED <<files, inputs, sideVars>>
    /\ JobFrame

\* createZipViaPython for result.zip ends.
JobZipResultDone(j) ==
    /\ JobRuns(j)
    /\ pcJ[j].at = "zip_result"
    /\ \E done \in BOOLEAN, ok \in PersistOutcomes :
         IF done
         THEN JobPersistStep(j, ensureV2Artifact(v2Jobs[j], "result_zip"), ok, JAt("finishing"))
         ELSE /\ pcJ' = [pcJ EXCEPT ![j] = JThrown("catch", "ZIP_FAILED", "zip")]
              /\ UNCHANGED <<v2Jobs, diskJobs>>
    /\ UNCHANGED expired
    /\ files' = files \cup JobFiles(j, v2Jobs'[j])
    /\ UNCHANGED <<inputs, sideVars>>
    /\ JobFrame

\* The end of the try block after result.zip.
JobFinish(j) ==
    /\ JobRuns(j)
    /\ pcJ[j].at = "finishing"
    /\ \E ok \in PersistOutcomes : JobSucceeds(j, v2Jobs[j], ok)
    /\ UNCHANGED <<files, inputs, sideVars>>
    /\ JobFrame

\* The catch block of runV2Job: finalizeFailure(err) and a persist, which
\* throws out of runV2Job when it fails.
JobCatch(j) ==
    /\ JobRuns(j)
    /\ pcJ[j].at = "catch"
    /\ \E ok \in PersistOutcomes :
         LET rec == finalizeFailure(v2Jobs[j], pcJ[j].err)
         IN /\ v2Jobs' = [v2Jobs EXCEPT ![j] = rec]
            /\ diskJobs' = IF ok THEN [diskJobs EXCEPT ![j] = rec] ELSE diskJobs
            /\ pcJ' = [pcJ EXCEPT ![j] = IF ok THEN JAt("finally")
                                           ELSE JThrown("finally", "EIO", "persist")]
    /\ ExpiryAssigned(j, TRUE)
    /\ UNCHANGED <<files, inputs, sideVars>>
    /\ JobFrame

\* Faulty variant of finallyRemoves: the flag is not looked at.
finallyRemovesAlways(j, rec) == {<<j, 0>>}

\* What the finally block of runV2Job removes: job.audioPath when the record
\* has cleanupAudioOnFinish.
finallyRemoves(j, rec) == IF rec.cleanupAudioOnFinish THEN {<<j, 0>>} ELSE {}

\* The finally block of runV2Job: an owned input is removed, then runV2Job
\* returns, or throws what its catch block threw.
JobFinally(j) ==
    /\ JobRuns(j)
    /\ pcJ[j].at = "finally"
    /\ inputs' = inputs \ finallyRemoves(j, v2Jobs[j])
    /\ pcJ' = [pcJ EXCEPT ![j] = [@ EXCEPT !.at = IF pcJ[j].err = NoError THEN "done"
                                                                          ELSE "threw"]]
    /\ UNCHANGED <<v2Jobs, diskJobs, expired, files, sideVars>>
    /\ JobFrame

\* runV2Job has ended with `outcome`: the queue moves on.  The catch handler
\* of POST /v2/jobs only writes a log line.
JobEnds(j, at, outcome) ==
    /\ JobRuns(j)
    /\ pcJ[j].at = at
    /\ Settle(jobTask[j], outcome)
    /\ StartJobs(Started(jobTask[j], outcome), jobTask, v2Jobs, diskJobs,
                 [pcJ EXCEPT ![j] = JIdle])
    /\ StartTasks(Started(jobTask[j], outcome), batchTask, v2Batches, diskBatches, pcB)
    /\ UNCHANGED <<batchTask, jobTask, issued, expired, restarts, diskFaults, files, inputs, sideVars>>

JobReturns(j) == JobEnds(j, "done", "resolved")
JobThrows(j) == JobEnds(j, "threw", "rejected")

(***************************************************************************)
(* Time, crash and restart.                                                *)
(***************************************************************************)

\* The clock passes the expiresAt of record id.
Tick(id) ==
    /\ id \notin expired
    /\ v2Batches[id].expiresAt \/ diskBatches[id].expiresAt
    /\ expired' = expired \cup {id}
    /\ UNCHANGED <<queueVars, jobVars, batchVars, issued, restarts, diskFaults, files, inputs, sideVars>>

\* The clock passes the expiresAt of job record id.
TickJob(id) ==
    /\ id \notin expired
    /\ v2Jobs[id].expiresAt \/ diskJobs[id].expiresAt
    /\ expired' = expired \cup {id}
    /\ UNCHANGED <<queueVars, jobVars, batchVars, issued, restarts, diskFaults, files, inputs, sideVars>>

\* Faulty variant of reapable: the clock is not looked at.
reapableAnyTime(rec, past) ==
    /\ rec.expiresAt
    /\ rec.state \notin {"queued", "running"}

\* The test of both sweeps: the record has an expiresAt, the clock has passed
\* it, and the record is neither queued nor running.
reapable(rec, past) ==
    /\ rec.expiresAt
    /\ past
    /\ rec.state \notin {"queued", "running"}

\* One round of the sweep of scheduleV2Cleanup on job j: the record leaves the
\* table and its directory is removed, job.json and every file in it.
SweepJob(j) ==
    /\ reapable(v2Jobs[j], j \in expired)
    /\ v2Jobs' = [v2Jobs EXCEPT ![j] = NoJob]
    /\ diskJobs' = [diskJobs EXCEPT ![j] = NoJob]
    /\ files' = {f \in files : f[1] # j}
    /\ inputs' = inputs \ JobDirInputs(j, v2Jobs[j])
    /\ UNCHANGED <<queueVars, batchVars, pcJ, jobTask, issued, expired, restarts,
                   diskFaults, sideVars>>

\* One round of the sweep of scheduleV2BatchCleanup on batch b.
SweepBatch(b) ==
    /\ reapable(v2Batches[b], b \in expired)
    /\ v2Batches' = [v2Batches EXCEPT ![b] = NoBatch]
    /\ diskBatches' = [diskBatches EXCEPT ![b] = NoBatch]
    /\ files' = {f \in files : f[1] # b}
    /\ inputs' = inputs \ BatchDirInputs(b, v2Batches[b])
    /\ UNCHANGED <<queueVars, jobVars, pcB, batchTask, issued, expired, restarts,
                   diskFaults, sideVars>>

\* tryLoadV2Job: the record parsed from job.json (nothing when there is no
\* file), its artifacts reconciled with the files in the job directory.
tryLoadV2Job(present, j) ==
    IF diskJobs[j] = NoJob THEN NoJob
    ELSE [diskJobs[j] EXCEPT !.artifacts = reconcile(present, @, j, 0)]

\* tryLoadV2Batch: the record parsed from batch.json (nothing when there is
\* no file), the artifacts of its items reconciled with the files.
tryLoadV2Batch(present, b) ==
    IF diskBatches[b] = NoBatch THEN NoBatch
    ELSE [diskBatches[b] EXCEPT !.items = [k \in DOMAIN @ |->
            [@[k] EXCEPT !.artifacts = reconcile(present, @, b, k)]]]

\* The errors loadV2BatchesFromDisk writes on the batch and on its items.
BatchInterrupted ==
    [code |-> "internal_error",
     message |-> <<"Batch", "interrupted", "by", "server", "restart", ".",
                   "Please", "re-submit", "the", "batch", ".">>]
ItemInterrupted ==
    [code |-> "internal_error",
     message |-> <<"Item", "interrupted", "by", "server", "restart", ".">>]

\* loadV2BatchesFromDisk on one loaded record: a batch that was queued or
\* running is marked failed, and so are its queued and running items.
recoverBatch(rec) ==
    IF rec.state \in {"queued", "running"}
    THEN [rec EXCEPT !.state = "failed", !.phase = "error", !.finishedAt = TRUE,
                     !.expiresAt = TRUE, !.error = BatchInterrupted,
                     !.items = [k \in DOMAIN rec.items |->
                        IF rec.items[k].state \in {"queued", "running"}
                        THEN [rec.items[k] EXCEPT !.state = "failed", !.phase = "error",
                                                  !.finishedAt = TRUE,
                                                  !.error = ItemInterrupted]
                        ELSE rec.items[k]]]
    ELSE rec

\* The error loadV2JobsFromDisk writes.
JobInterrupted ==
    [code |-> "internal_error",
     message |-> <<"Job", "interrupted", "by", "server", "restart", ".",
                   "Please", "re-submit", "the", "job", ".">>]

\* Faulty variant of recoverJob: only a job that was running is marked failed
recoverRunningJob(rec) ==
    IF rec.state = "running"
    THEN [rec EXCEPT !.state = "failed", !.phase = "error", !.finishedAt = TRUE,
                     !.expiresAt = TRUE, !.error = JobInterrupted]
    ELSE rec

\* loadV2JobsFromDisk on one loaded record: a job that was queued or running
\* is marked failed.
recoverJob(rec) ==
    IF rec.state \in {"queued", "running"}
    THEN [rec EXCEPT !.state = "failed", !.phase = "error", !.finishedAt = TRUE,
                     !.expiresAt = TRUE, !.error = JobInterrupted]
    ELSE rec

\* loadV2JobsFromDisk decides for one directory, as LoadedBatch below.
LoadedJob(present, j) ==
    LET rec == tryLoadV2Job(present, j)
    IN IF rec = NoJob \/ (rec.expiresAt /\ j \in expired) THEN NoJob ELSE recoverJob(rec)

\* job.json after the scan: gone with an expired job's directory, rewritten
\* for an interrupted job, and untouched otherwise.
ScannedJobFile(present, j) ==
    IF LoadedJob(present, j) = NoJob THEN NoJob
    ELSE IF diskJobs[j].state \in {"queued", "running"} THEN LoadedJob(present, j)
    ELSE diskJobs[j]

\* loadV2BatchesFromDisk decides for one directory: no parseable batch.json,
\* nothing is loaded; an expired record, the directory is removed; else the
\* record is recovered, persisted when it was changed, and put in the table.
LoadedBatch(present, b) ==
    LET rec == tryLoadV2Batch(present, b)
    IN IF rec = NoBatch \/ (rec.expiresAt /\ b \in expired) THEN NoBatch ELSE recoverBatch(rec)

\* batch.json after the scan, as ScannedJobFile.
ScannedBatchFile(present, b) ==
    IF LoadedBatch(present, b) = NoBatch THEN NoBatch
    ELSE IF diskBatches[b].state \in {"queued", "running"} THEN LoadedBatch(present, b)
    ELSE diskBatches[b]

\* The process dies and is started again: the queue, the tasks and the
\* tables are gone, and the startup scan reloads the tables from disk.  While
\* the process is down the artifact files `lost` go away and the files `back`
\* are put back.
Outage(lost, back, limit) ==
  LET present == (files \ lost) \cup back IN
    /\ restarts < limit
    /\ restarts' = restarts + 1
    /\ qWaiting' = <<>>
    /\ qRunning' = {}
    /\ taskStatus' = [t \in TaskIds |->
            IF taskStatus[t] \in {"waiting", "running"} THEN "lost" ELSE taskStatus[t]]
    /\ v2Batches' = [b \in BatchIds |-> LoadedBatch(present, b)]
    /\ diskBatches' = [b \in BatchIds |-> ScannedBatchFile(present, b)]
    /\ pcB' = [b \in BatchIds |-> Idle]
    /\ batchTask' = [b \in BatchIds |-> 0]
    /\ v2Jobs' = [j \in JobIds |-> LoadedJob(present, j)]
    /\ diskJobs' = [j \in JobIds |-> ScannedJobFile(present, j)]
    /\ inputs' = (inputs \ UNION {IF LoadedBatch(present, b) = NoBatch
                                   THEN BatchDirInputs(b, diskBatches[b]) ELSE {} : b \in BatchIds})
                    \ UNION {IF LoadedJob(present, j) = NoJob
                             THEN JobDirInputs(j, diskJobs[j]) ELSE {} : j \in JobIds}
    /\ UNCHANGED sideVars
    /\ files' = {f \in present : f[1] \in BatchIds => LoadedBatch(present, f[1]) # NoBatch}
                \ {f \in present : f[1] \in JobIds /\ LoadedJob(present, f[1]) = NoJob}
    /\ pcJ' = [j \in JobIds |-> JIdle]
    /\ jobTask' = [j \in JobIds |-> 0]
    /\ expired' = {b \in expired \cap BatchIds :
                        /\ LoadedBatch(present, b) # NoBatch
                        /\ diskBatches[b].state \notin {"queued", "running"}}
                  \cup {j \in expired \cap JobIds :
                        /\ LoadedJob(present, j) # NoJob
                        /\ diskJobs[j].state \notin {"queued", "running"}}
    /\ UNCHANGED <<taskKind, nextTask, issued, diskFaults>>

\* A restart with the files of the artifacts left as they are.
Restart == Outage({}, {}, MaxRestarts)

(***************************************************************************)
(* Specifications.                                                         *)
(***************************************************************************)

Init ==
    /\ qWaiting = <<>>
    /\ qRunning = {}
    /\ taskKind = [t \in TaskIds |-> "none"]
    /\ taskStatus = [t \in TaskIds |-> "none"]
    /\ nextTask = 1
    /\ v2Batches = [b \in BatchIds |-> NoBatch]
    /\ diskBatches = [b \in BatchIds |-> NoBatch]
    /\ pcB = [b \in BatchIds |-> Idle]
    /\ batchTask = [b \in BatchIds |-> 0]
    /\ v2Jobs = [j \in JobIds |-> NoJob]
    /\ diskJobs = [j \in JobIds |-> NoJob]
    /\ pcJ = [j \in JobIds |-> JIdle]
    /\ jobTask = [j \in JobIds |-> 0]
    /\ files = {}
    /\ inputs = {}
    /\ metaFile = NoContent
    /\ tmpFiles = [w \in Writers |-> NoContent]
    /\ pcW = [w \in Writers |-> "idle"]
    /\ committed = <<>>
    /\ lastPost = NoPost
    /\ procs = [p \in Pids |-> "unborn"]
    /\ workerChild = 0
    /\ asrCall = NoCall
    /\ asrCalls = 0
    /\ pcP = NotProduced
    /\ tableArtifacts = [key \in ArtifactKeys |-> "none"]
    /\ metaArtifacts = [key \in ArtifactKeys |-> "none"]
    /\ polled = NoPoll
    /\ scanAt = [kind \in ScanKinds |-> "off"]
    /\ scanEntries = [kind \in ScanKinds |-> {}]
    /\ scanReplaced = {}
    /\ lastCreate = NoCreate
    /\ wProcs = [p \in Pids |-> "unborn"]
    /\ wChild = 0
    /\ wStarting = FALSE
    /\ wReady = FALSE
    /\ wNextId = 1
    /\ wPending = {}
    /\ wCalls = [c \in Callers |-> NotCalled]
    /\ wWaiters = <<>>
    /\ wWrites = {}
    /\ wSettled = [id \in RequestIds |-> 0]
    /\ issued = {}
    /\ expired = {}
    /\ restarts = 0
    /\ diskFaults = FALSE

\* The engine queue under opaque v1, job and batch tasks.
Next ==
    \/ SubmitV1
    \/ SubmitJob
    \/ SubmitBatch
    \/ TaskReturns
    \/ TaskThrows

Spec == Init /\ [][Next]_vars

\* No v2 record has been created yet.
FirstRecord == issued = {}

\* One v2 record, a job or a batch, possibly queued behind a v1 request, with
\* the cancel endpoint, the clock and restarts.
NextV2 ==
    \/ V1Arrives
    \/ V1Returns
    \/ V1Throws
    \/ \E j \in JobIds :
        \/ FirstRecord /\ CreateJob(j)
        \/ JobEnter(j)
        \/ JobConvertDone(j)
        \/ JobRecognizeDone(j)
        \/ JobAfterAsr(j)
        \/ JobDemucsDone(j)
        \/ JobPublishNoVocals(j)
        \/ JobEnterZipDemucs(j)
        \/ JobZipDemucsDone(j)
        \/ JobAfterDemucs(j)
        \/ JobZipResultDone(j)
        \/ JobFinish(j)
        \/ JobCatch(j)
        \/ JobFinally(j)
        \/ JobReturns(j)
        \/ TickJob(j)
        \/ SweepJob(j)
    \/ \E b \in BatchIds :
        \/ FirstRecord /\ CreateBatch(b)
        \/ CancelBatch(b)
        \/ EnterStages(b)
        \/ Stage1Head(b)
        \/ MarkCanceled(b)
        \/ TranscodeDone(b)
        \/ RecognizeDone(b)
        \/ Stage2Head(b)
        \/ DemucsDone(b)
        \/ ZipDemucsDone(b)
        \/ ZipResultDone(b)
        \/ BatchCatch(b)
        \/ BatchReturns(b)
        \/ Tick(b)
        \/ SweepBatch(b)
    \/ Restart

SpecV2 == Init /\ [][NextV2]_vars

(***************************************************************************)
(* The VAD parameters of POST /v2/jobs and POST /v2/batches.  A raw         *)
(* parameter is a string of characters; the empty string stands for a      *)
(* parameter that is not given.  A JavaScript number is undefined, NaN, or *)
(* a sign, an integer part and whether there is a fractional part.         *)
(***************************************************************************)

Chars == {"-", "0", "7", ".", "x"}
RawStrings == UNION {[1..n -> Chars] : n \in 0..MaxRawLen}

Undefined == [kind |-> "undefined", neg |-> FALSE, int |-> 0, frac |-> FALSE]
NaN == [kind |-> "nan", neg |-> FALSE, int |-> 0, frac |-> FALSE]
Number(neg, int, frac) == [kind |-> "number", neg |-> neg, int |-> int, frac |-> frac]

IsDigit(c) == c \in {"0", "7"}
DigitValue(c) == IF c = "7" THEN 7 ELSE 0

\* The longest prefix of s made of digits.
RECURSIVE DigitPrefix(_)
DigitPrefix(s) ==
    IF s = <<>> \/ ~IsDigit(Head(s)) THEN <<>> ELSE <<Head(s)>> \o DigitPrefix(Tail(s))

\* The value of a string of digits, 0 for the empty one.
RECURSIVE DecimalValue(_)
DecimalValue(s) ==
    IF s = <<>> THEN 0
    ELSE 10 * DecimalValue(SubSeq(s, 1, Len(s) - 1)) + DigitValue(s[Len(s)])

\* Number.parseInt(s, 10): an optional sign and the digits that follow it,
\* whatever comes after them; NaN when there is no digit.
parseInt10(s) ==
    LET neg == s # <<>> /\ Head(s) = "-"
        rest == IF neg THEN Tail(s) ELSE s
        digits == DigitPrefix(rest)
    IN IF digits = <<>> THEN NaN ELSE Number(neg, DecimalValue(digits), FALSE)

\* Number(s) of a string: 0 for the empty string, the value of a decimal
\* literal that is the whole string, and NaN otherwise.
toNumber(s) ==
    LET neg == s # <<>> /\ Head(s) = "-"
        rest == IF neg THEN Tail(s) ELSE s
        ip == DigitPrefix(rest)
        after == SubSeq(rest, Len(ip) + 1, Len(rest))
        fp == IF after = <<>> THEN <<>> ELSE Tail(after)
    IN IF s = <<>> THEN Number(FALSE, 0, FALSE)
       ELSE IF after = <<>>
            THEN IF ip = <<>> THEN NaN ELSE Number(neg, DecimalValue(ip), FALSE)
       ELSE IF Head(after) = "." /\ DigitPrefix(fp) = fp /\ (ip # <<>> \/ fp # <<>>)
            THEN Number(neg, DecimalValue(ip), DecimalValue(fp) > 0)
       ELSE NaN

\* Number.isFinite(n) and n > 0.
isFinite(n) == n.kind = "number"
positive(n) == n.kind = "number" /\ ~n.neg /\ (n.int > 0 \/ n.frac)

\* parsePositiveIntOrUndefined
parsePositiveIntOrUndefined(raw) ==
    IF raw = <<>> THEN Undefined
    ELSE LET n == parseInt10(raw)
         IN IF ~isFinite(n) \/ ~positive(n) THEN Undefined ELSE n

\* parseBatchOptions, for one VAD option: the option is kept when it is a
\* finite number above 0 and is left out otherwise.
parseBatchOptions(option) ==
    LET n == IF option # <<>> THEN toNumber(option) ELSE Undefined
    IN IF n # Undefined /\ isFinite(n) /\ positive(n) THEN n ELSE Undefined

\* The VAD test of POST /v2/jobs on one query parameter.
jobVadValue(raw) == IF raw # <<>> THEN parseInt10(raw) ELSE Undefined
jobVadInvalid(n) == n # Undefined /\ (~isFinite(n) \/ ~positive(n))

VadFrame ==
    UNCHANGED <<queueVars, batchVars, jobVars, files, inputs, issued, expired, restarts,
                diskFaults, writeVars, workerVars, pollVars, scanVars, createVars, supVars>>

\* POST /v2/jobs with the two VAD query parameters q1 and q2: bad_request
\* when one of them is given and does not parse to a number above 0, else
\* the handler goes on to create the job with the parsed values.
PostJobWithVad(q1, q2) ==
    /\ lastPost = NoPost
    /\ LET v1 == jobVadValue(q1)
           v2 == jobVadValue(q2)
       IN lastPost' = [endpoint |-> "jobs", query |-> <<q1, q2>>, options |-> <<>>,
                       status |-> IF jobVadInvalid(v1) \/ jobVadInvalid(v2)
                                  THEN "bad_request" ELSE "created",
                       vad |-> IF jobVadInvalid(v1) \/ jobVadInvalid(v2)
                               THEN <<>> ELSE <<v1, v2>>]
    /\ VadFrame

\* POST /v2/batches with vadMaxSingleSegmentMs given as `option` in the
\* options and as q in the query (vadMaxEndSilenceMs goes through the same
\* code): the query value replaces the option when it parses, and the
\* handler goes on to create the batch in every case.
PostBatchWithVad(q, option) ==
    /\ lastPost = NoPost
    /\ LET fromOptions == parseBatchOptions(option)
           qVad == parsePositiveIntOrUndefined(q)
       IN lastPost' = [endpoint |-> "batches", query |-> <<q>>, options |-> <<option>>,
                       status |-> "created",
                       vad |-> <<IF qVad # Undefined THEN qVad ELSE fromOptions>>]
    /\ VadFrame

\* One create request is followed: the handlers keep nothing of the VAD
\* parameters from one request to the next.
NextVad ==
    \/ \E q1, q2 \in RawStrings : PostJobWithVad(q1, q2)
    \/ \E q, option \in RawStrings : PostBatchWithVad(q, option)

SpecVad == Init /\ [][NextVad]_vars

(***************************************************************************)
(* runAsrViaPython and PythonAsrWorker.  The engine queue runs one task at *)
(* a time, so one call is under way at a time.  A subprocess prints ready, *)
(* answers a request with ok true or ok false, or exits, at any time.      *)
(***************************************************************************)

Alive == {p \in Pids : procs[p] \in {"starting", "ready"}}
Unborn == {p \in Pids : procs[p] = "unborn"}

WorkerFrame ==
    UNCHANGED <<queueVars, batchVars, jobVars, files, inputs, issued, expired, restarts,
                diskFaults, writeVars, vadVars, pollVars, scanVars, createVars, supVars>>

\* ensureStarted without a child: a subprocess is spawned and the call waits
\* for its ready line.
spawnFor(call, ps) ==
    LET p == CHOOSE q \in Unborn : \A r \in Unborn : q <= r
    IN /\ Unborn # {}
       /\ procs' = [ps EXCEPT ![p] = "starting"]
       /\ workerChild' = p
       /\ asrCall' = [call EXCEPT !.at = "starting"]

\* Faulty variant of mayRetry: the call is retried after every failure.
mayRetryAlways(call) == TRUE

\* The failure of requestAsr is caught only in the try block of
\* runAsrViaPython.
mayRetry(call) == call.attempt = 1

\* requestAsr rejects with an error of code `code` ("PY_ASR_FAILED", or
\* "none" for the exit errors, which carry no code).  In the try block the
\* catch makes a new PythonAsrWorker, letting go of the old one without
\* ending its child, and calls requestAsr again, which spawns; in the catch
\* block the error leaves runAsrViaPython.
requestFails(code, ps) ==
    IF mayRetry(asrCall)
    THEN spawnFor([asrCall EXCEPT !.attempt = @ + 1], ps)
    ELSE /\ procs' = ps
         /\ workerChild' = IF ps[workerChild] = "exited" THEN 0 ELSE workerChild
         /\ asrCall' = [asrCall EXCEPT !.at = "threw", !.err = code]

\* runAsrViaPython is called: with a child the request is written to it,
\* without one a subprocess is spawned first.
CallBegin ==
    /\ asrCall.at \in {"idle", "returned", "threw"}
    /\ asrCalls < MaxCalls
    /\ asrCalls' = asrCalls + 1
    /\ LET call == [at |-> "sent", attempt |-> 1, sends |-> 1, err |-> "none"]
       IN IF workerChild # 0
          THEN /\ asrCall' = call
               /\ UNCHANGED <<procs, workerChild>>
          ELSE spawnFor([call EXCEPT !.sends = 0], procs)
    /\ WorkerFrame

\* Subprocess p prints its ready line: the request of the waiting call is
\* written to it.
ProcReady(p) ==
    /\ procs[p] = "starting"
    /\ procs' = [procs EXCEPT ![p] = "ready"]
    /\ asrCall' = IF p = workerChild /\ asrCall.at = "starting"
                  THEN [asrCall EXCEPT !.at = "sent", !.sends = @ + 1]
                  ELSE asrCall
    /\ UNCHANGED <<workerChild, asrCalls>>
    /\ WorkerFrame

\* The child answers the request with a result line.
ProcAnswers(p, ok) ==
    /\ p = workerChild
    /\ procs[p] = "ready"
    /\ asrCall.at = "sent"
    /\ IF ok
       THEN /\ asrCall' = [asrCall EXCEPT !.at = "returned"]
            /\ UNCHANGED <<procs, workerChild>>
       ELSE requestFails("PY_ASR_FAILED", procs)
    /\ UNCHANGED asrCalls
    /\ WorkerFrame

\* Faulty variant of childAfterExit: the close handler keeps this.child.
childAfterExitKept(p) == workerChild

\* The close handler of the worker whose child p was: this.child = undefined.
childAfterExit(p) == IF p = workerChild THEN 0 ELSE workerChild

\* Subprocess p exits (a crash, a kill, or its idle timeout): the close
\* handler of its worker rejects the pending requests and forgets the child;
\* a call waiting for its ready line is rejected too.
ProcExit(p) ==
    /\ p \in Alive
    /\ LET ps == [procs EXCEPT ![p] = "exited"]
       IN IF p = workerChild /\ asrCall.at \in {"starting", "sent"}
          THEN requestFails("none", ps)
          ELSE /\ procs' = ps
               /\ workerChild' = childAfterExit(p)
               /\ UNCHANGED asrCall
    /\ UNCHANGED asrCalls
    /\ WorkerFrame

\* The code runV2Job and runV2Batch record for an error of runAsrViaPython.
asrErrorCode(code) == IF code = "PY_ASR_FAILED" THEN "engine_error" ELSE "internal_error"

NextWorker ==
    \/ CallBegin
    \/ \E p \in Pids :
        \/ ProcReady(p)
        \/ \E ok \in BOOLEAN : ProcAnswers(p, ok)
        \/ ProcExit(p)

SpecWorker == Init /\ [][NextWorker]_vars

(***************************************************************************)
(* writeJsonAtomic on one metadata path, step by step, with its callers    *)
(* interleaved and the process dying at any point.                         *)
(***************************************************************************)

Max(S) == CHOOSE x \in S : \A y \in S : y <= x

\* The record a new call serialises: one never written before.
NextVersion ==
    1 + Max({metaFile.version} \cup {tmpFiles[w].version : w \in Writers}
            \cup {committed[i] : i \in DOMAIN committed})

\* The directory as a load finds it.
MetaDir == [target |-> metaFile, tmps |-> {tmpFiles[w] : w \in Writers}]

\* Faulty variant of readMeta: without a readable job.json the loader takes
\* a complete temporary file.
readMetaOrTmp(dir) ==
    IF dir.target.complete THEN dir.target.version
    ELSE IF \E t \in dir.tmps : t.complete
         THEN (CHOOSE t \in dir.tmps : t.complete).version
         ELSE 0

\* The head of tryLoadV2Job / tryLoadV2Batch: the record in the metadata file,
\* or nothing (0) when the file cannot be read or its text does not parse,
\* as is the case for any text written in part.
readMeta(dir) == IF dir.target.complete THEN dir.target.version ELSE 0

WriteFrame ==
    UNCHANGED <<queueVars, batchVars, jobVars, files, inputs, issued, expired, diskFaults, vadVars,
               workerVars, pollVars, scanVars, createVars, supVars>>

\* writeJsonAtomic is called: the directory is made and writeFile starts on
\* a temporary file of a fresh name.
WriteBegin(w) ==
    /\ pcW[w] = "idle"
    /\ NextVersion <= MaxWrites
    /\ tmpFiles' = [tmpFiles EXCEPT ![w] = [version |-> NextVersion, complete |-> FALSE]]
    /\ pcW' = [pcW EXCEPT ![w] = "writing"]
    /\ UNCHANGED <<metaFile, committed, restarts>>
    /\ WriteFrame

\* writeFile ends: the temporary file holds the whole text.
WriteTmpDone(w) ==
    /\ pcW[w] = "writing"
    /\ tmpFiles' = [tmpFiles EXCEPT ![w] = [@ EXCEPT !.complete = TRUE]]
    /\ pcW' = [pcW EXCEPT ![w] = "written"]
    /\ UNCHANGED <<metaFile, committed, restarts>>
    /\ WriteFrame

\* rename(tmp, filePath): the temporary file takes the place of the target.
renameOnto(w) ==
    /\ metaFile' = tmpFiles[w]
    /\ tmpFiles' = [tmpFiles EXCEPT ![w] = NoContent]
    /\ committed' = Append(committed, tmpFiles[w].version)
    /\ pcW' = [pcW EXCEPT ![w] = "idle"]

\* The first rename succeeds and writeJsonAtomic returns.
RenameDone(w) ==
    /\ pcW[w] = "written"
    /\ renameOnto(w)
    /\ UNCHANGED restarts
    /\ WriteFrame

\* The first rename fails with EEXIST or EPERM because the target exists,
\* and the fallback removes the target.
FallbackRemove(w) ==
    /\ pcW[w] = "written"
    /\ metaFile # NoContent
    /\ metaFile' = NoContent
    /\ pcW' = [pcW EXCEPT ![w] = "removed"]
    /\ UNCHANGED <<tmpFiles, committed, restarts>>
    /\ WriteFrame

\* The second rename of the fallback: it succeeds, or, when another caller
\* has put a target in place meanwhile, it may fail again and throw.
FallbackRename(w) ==
    /\ pcW[w] = "removed"
    /\ \/ renameOnto(w)
       \/ /\ metaFile # NoContent
          /\ pcW' = [pcW EXCEPT ![w] = "idle"]
          /\ UNCHANGED <<metaFile, tmpFiles, committed>>
    /\ UNCHANGED restarts
    /\ WriteFrame

\* The first rename fails with another error, which writeJsonAtomic throws:
\* the temporary file stays behind.
RenameThrows(w) ==
    /\ pcW[w] = "written"
    /\ pcW' = [pcW EXCEPT ![w] = "idle"]
    /\ UNCHANGED <<metaFile, tmpFiles, committed, restarts>>
    /\ WriteFrame

\* The process dies, whatever its calls are doing, and is started again; the
\* files stay as they are.
WriteCrash ==
    /\ restarts < MaxLoads
    /\ restarts' = restarts + 1
    /\ pcW' = [w \in Writers |-> "idle"]
    /\ UNCHANGED <<metaFile, tmpFiles, committed>>
    /\ WriteFrame

NextWrite ==
    \/ \E w \in Writers :
        \/ WriteBegin(w)
        \/ WriteTmpDone(w)
        \/ RenameDone(w)
        \/ FallbackRemove(w)
        \/ FallbackRename(w)
        \/ RenameThrows(w)
    \/ WriteCrash

SpecWrite == Init /\ [][NextWrite]_vars

\* The files the records on disk name: the artifact entries of job.json and
\* of the items of batch.json.
RecordedFiles ==
    {f \in JobIds \X {0} \X ArtifactKeys : diskJobs[f[1]].artifacts[f[3]] # "none"}
    \cup UNION {{f \in {b} \X (DOMAIN diskBatches[b].items) \X ArtifactKeys :
                    diskBatches[b].items[f[2]].artifacts[f[3]] # "none"} : b \in BatchIds}

\* The process is down for a while, and some of the recorded artifact files
\* are removed or put back by hand before it is started again.
OutageWithFileChanges ==
    \E lost \in SUBSET files, back \in SUBSET (RecordedFiles \ files) :
        /\ Cardinality(lost \cup back) <= MaxLost
        /\ Outage(lost, back, MaxLoads)

\* One v2 record, job or batch, runs with nothing else in the queue; the
\* process restarts at any moment, with artifact files gone or back.
NextLoad ==
    \/ \E j \in JobIds :
        \/ FirstRecord /\ CreateJob(j)
        \/ JobEnter(j)
        \/ JobConvertDone(j)
        \/ JobRecognizeDone(j)
        \/ JobAfterAsr(j)
        \/ JobDemucsDone(j)
        \/ JobPublishNoVocals(j)
        \/ JobEnterZipDemucs(j)
        \/ JobZipDemucsDone(j)
        \/ JobAfterDemucs(j)
        \/ JobZipResultDone(j)
        \/ JobFinish(j)
        \/ JobCatch(j)
        \/ JobFinally(j)
        \/ JobReturns(j)
    \/ \E b \in BatchIds :
        \/ FirstRecord /\ CreateBatch(b)
        \/ EnterStages(b)
        \/ Stage1Head(b)
        \/ TranscodeDone(b)
        \/ RecognizeDone(b)
        \/ Stage2Head(b)
        \/ DemucsDone(b)
        \/ ZipDemucsDone(b)
        \/ ZipResultDone(b)
        \/ BatchCatch(b)
        \/ BatchReturns(b)
    \/ OutageWithFileChanges

SpecLoad == Init /\ [][NextLoad]_vars

\* A step of runV2Batch for b.
BatchEngineStep(b) ==
    \/ EnterStages(b)
    \/ Stage1Head(b)
    \/ MarkCanceled(b)
    \/ TranscodeDone(b)
    \/ RecognizeDone(b)
    \/ Stage2Head(b)
    \/ DemucsDone(b)
    \/ ZipDemucsDone(b)
    \/ ZipResultDone(b)
    \/ BatchCatch(b)
    \/ BatchReturns(b)

\* SpecV2 in which every await of runV2Batch eventually completes: the child
\* processes and the file operations it waits for end.
SpecV2Fair == SpecV2 /\ \A b \in BatchIds : WF_vars(BatchEngineStep(b))

(***************************************************************************)
(* Claims about the engine queue.                                          *)
(***************************************************************************)

InSeq(s, x) == \E k \in 1..Len(s) : s[k] = x

\* C1: at any moment at most one task submitted to the serial engine queue
\* is executing, whatever mix of v1, job and batch tasks was submitted; the
\* `running` observable is 0 or 1.
C1_AtMostOneRunning ==
    /\ running \in {0, 1}
    /\ Cardinality({t \in TaskIds : taskStatus[t] = "running"}) <= 1

\* C1 witness: a task runs while tasks of the two other kinds wait behind it.
C1_Witness ==
    /\ running = 1
    /\ pending = 2
    /\ {taskKind[t] : t \in 1..3} = TaskKinds

\* C2: tasks execute in submission order: when B has started, every task
\* submitted before B has finished (resolved or rejected).
C2_Fifo ==
    \A a, b \in TaskIds :
        (a < b /\ taskStatus[b] \in {"running", "resolved", "rejected"})
            => taskStatus[a] \in Settled

\* C2 witness: the third submission runs after the first two have finished.
C2_Witness ==
    /\ taskStatus[3] = "running"
    /\ taskStatus[1] \in Settled
    /\ taskStatus[2] \in Settled

\* C3: when a task throws, only that task's submitter gets the rejection, the
\* task at the head of the queue starts in the same step, and no waiting task
\* is dropped.
C3_ThrowDoesNotPoison ==
    [][\A t \in TaskIds :
          (taskStatus[t] # "rejected" /\ taskStatus'[t] = "rejected")
              => /\ taskStatus[t] = "running"
                 /\ \A u \in TaskIds \ {t} :
                        taskStatus'[u] = "rejected" => taskStatus[u] = "rejected"
                 /\ Len(qWaiting) > 0 => taskStatus'[Head(qWaiting)] = "running"
                 /\ \A u \in TaskIds :
                        taskStatus[u] = "waiting" => taskStatus'[u] \in {"waiting", "running"}]_vars

\* C3 witness: a task has thrown and the task submitted after it runs.
C3_Witness ==
    \E t \in 1..(MaxTasks - 1) :
        /\ taskStatus[t] = "rejected"
        /\ taskStatus[t + 1] = "running"

(***************************************************************************)
(* Claims about the v2 records.                                            *)
(***************************************************************************)

TerminalJobStates == {"succeeded", "failed"}
TerminalBatchStates == {"succeeded", "failed", "canceled"}

\* finishedAt and expiresAt are both set on a terminal record and both unset
\* on any other.
StampsFollowState(rec, terminal) ==
    IF rec.state \in terminal
    THEN rec.finishedAt /\ rec.expiresAt
    ELSE ~rec.finishedAt /\ ~rec.expiresAt

\* C4: every job and batch record, in the table and on disk, has finishedAt
\* and expiresAt set when its state is terminal and has neither when it is
\* queued or running.
C4_TerminalStamps ==
    /\ \A j \in JobIds :
        /\ StampsFollowState(v2Jobs[j], TerminalJobStates)
        /\ StampsFollowState(diskJobs[j], TerminalJobStates)
    /\ \A b \in BatchIds :
        /\ StampsFollowState(v2Batches[b], TerminalBatchStates)
        /\ StampsFollowState(diskBatches[b], TerminalBatchStates)

\* C4 witness: a batch that ended through the cancel check carries both stamps.
C4_Witness ==
    \E b \in BatchIds :
        /\ v2Batches[b].state = "canceled"
        /\ v2Batches[b].finishedAt
        /\ v2Batches[b].expiresAt
        /\ diskBatches[b] = v2Batches[b]

StemPhases == {"demucs", "zip_demucs", "zip_result"}

\* The item has finished its ASR stage.
AsrFinished(item) == item.artifacts["srt"] = "ready" \/ item.state = "failed"

\* The item has entered the Demucs stage.
InDemucsStage(item) == item.phase \in StemPhases \/ item.artifacts["vocals"] = "ready"

\* C5: in a batch with both tasks, whenever some item has entered phase
\* demucs (or a later phase of stage 2), every item has finished its ASR stage:
\* its srt is published or it is failed.
C5_StageFirst ==
    \A b \in BatchIds :
        \A rec \in {v2Batches[b], diskBatches[b]} :
            (rec.tasks.asr /\ rec.tasks.demucs
                    /\ \E k \in DOMAIN rec.items : InDemucsStage(rec.items[k]))
                => \A k \in DOMAIN rec.items : AsrFinished(rec.items[k])

\* C5 witness: the second item is in Demucs after the first one failed in
\* ASR and the second one got its srt.
C5_Witness ==
    \E b \in BatchIds :
        /\ v2Batches[b].tasks.asr /\ v2Batches[b].tasks.demucs
        /\ Len(v2Batches[b].items) = 2
        /\ v2Batches[b].items[1].state = "failed"
        /\ v2Batches[b].items[2].phase = "demucs"
        /\ v2Batches[b].items[2].artifacts["srt"] = "ready"

\* The errors of the steps of an item that runV2Batch does not catch per item.
UncaughtItemErrors == {"relocation", "copy", "zip"}

\* C6: a failure in a step of one item is recorded on that item and the loop
\* goes on: runV2Batch is never in its outer catch block because of an item's
\* step, and when it has returned no item is left running.
C6_ItemFailureIsolated ==
    \A b \in BatchIds :
        /\ pcB[b].at = "catch" => pcB[b].err \notin UncaughtItemErrors
        /\ pcB[b].at = "done" =>
              \A k \in DOMAIN v2Batches[b].items : v2Batches[b].items[k].state # "running"

\* C7: a batch that terminated through the cancel check has no item left in
\* state queued.
C7_NoQueuedAfterCancel ==
    \A b \in BatchIds :
        v2Batches[b].state = "canceled"
            => \A k \in DOMAIN v2Batches[b].items : v2Batches[b].items[k].state # "queued"

\* The awaits of runV2Batch during which an item is in flight.
InFlightAt == {"s1_convert", "s1_asr", "s2_demucs", "s2_zip", "s2_zipresult"}

StateByItems(rec) ==
    IF \E k \in DOMAIN rec.items : rec.items[k].state = "failed" THEN "failed"
    ELSE IF \E k \in DOMAIN rec.items : rec.items[k].state = "canceled" THEN "canceled"
    ELSE "succeeded"

\* C9: a batch that runV2Batch has terminated in phase done (through the
\* finalize block or through the cancel check) is failed if an item is failed,
\* canceled if an item is canceled and none is failed, and succeeded otherwise.
C9_StateFollowsItems ==
    \A b \in BatchIds :
        (v2Batches[b].state \in TerminalBatchStates /\ v2Batches[b].phase = "done")
            => v2Batches[b].state = StateByItems(v2Batches[b])

RestartPhrase == <<"interrupted", "by", "server", "restart">>

\* The words of `phrase` appear in `message`, in a row.
Mentions(message, phrase) ==
    \E k \in 0..(Len(message) - Len(phrase)) :
        SubSeq(message, k + 1, k + Len(phrase)) = phrase

\* The record carries what the startup scan writes on an interrupted record.
MarkedInterrupted(rec) ==
    /\ rec.state = "failed"
    /\ rec.error.code = "internal_error"
    /\ Mentions(rec.error.message, RestartPhrase)
    /\ rec.finishedAt
    /\ rec.expiresAt

\* The task is waiting in the queue or executing.
InQueue(t) == t \in qRunning \/ InSeq(qWaiting, t)

AwaitsDemucs(j) == v2Jobs[j].type = "asr-demucs" /\ JobRuns(j) /\ pcJ[j].at = "demucs"

C11_SrtBeforeSuccess ==
    /\ [](\A j \in JobIds :
            AwaitsDemucs(j) => /\ v2Jobs[j].state = "running"
                               /\ v2Jobs[j].artifacts["srt"] = "ready")
    /\ [][\A j \in JobIds :
            (/\ v2Jobs[j].type = "asr-demucs"
             /\ v2Jobs[j].state # "succeeded"
             /\ v2Jobs'[j].state = "succeeded")
            => /\ v2Jobs[j].state = "running"
               /\ v2Jobs[j].artifacts["srt"] = "ready"
               /\ v2Jobs[j].phase \in {"zip_result", "demucs", "zip_demucs"}]_vars

C11_Witness ==
    \E j \in JobIds :
        /\ v2Jobs[j].type = "asr-demucs"
        /\ v2Jobs[j].state = "succeeded"
        /\ v2Jobs[j].artifacts["srt"] = "ready"

TerminalItemStates == {"succeeded", "failed", "canceled"}

C13_OwnedInputDeleted ==
    /\ \A j \in JobIds :
         (/\ v2Jobs[j].state \in TerminalJobStates
          /\ v2Jobs[j].cleanupAudioOnFinish
          /\ pcJ[j].at \in {"idle", "done", "threw"})
         => <<j, 0>> \notin inputs
    /\ \A b \in BatchIds : \A i \in DOMAIN v2Batches[b].items :
         (/\ v2Batches[b].items[i].state \in TerminalItemStates
          /\ v2Batches[b].items[i].ownedInput)
         => <<b, i>> \notin inputs

(***************************************************************************)
(* C14.  An input supplied by local path is never deleted by a job, a      *)
(* batch, the recovery after a restart or the reaper: an input file that   *)
(* no record marks as owned is still there after every step.               *)
(***************************************************************************)
OwnedInput(x) ==
    IF x[2] = 0
    THEN v2Jobs[x[1]].cleanupAudioOnFinish \/ diskJobs[x[1]].cleanupAudioOnFinish
    ELSE \/ x[2] \in DOMAIN v2Batches[x[1]].items /\ v2Batches[x[1]].items[x[2]].ownedInput
         \/ x[2] \in DOMAIN diskBatches[x[1]].items /\ diskBatches[x[1]].items[x[2]].ownedInput

C14_LocalPathInputKept ==
    [][\A x \in inputs : ~OwnedInput(x) => x \in inputs']_vars

C14_Witness ==
    /\ \E j \in JobIds :
        /\ v2Jobs[j] = NoJob
        /\ issued # {}
        /\ <<j, 0>> \in inputs

(***************************************************************************)
(* C15.  When the separator ends with a non-zero exit status during the    *)
(* demucs stage of a job, the job is failed with error.code bad_audio: a   *)
(* job record that carries the error of runDemucs has that code.           *)
(***************************************************************************)
C15_DemucsFailureIsBadAudio ==
    \A j \in JobIds :
        (v2Jobs[j].state = "failed" /\ v2Jobs[j].error.message = <<"demucs">>)
        => v2Jobs[j].error.code = "bad_audio"

(***************************************************************************)
(* C16.  Every terminal job and every terminal batch carries ready         *)
(* artifacts or an error object on its record, never neither.  For a batch *)
(* the artifacts and the errors of its items count as on its record.       *)
(***************************************************************************)
HasReadyArtifact(artifacts) == \E key \in ArtifactKeys : artifacts[key] = "ready"

C16_ArtifactsOrError ==
    /\ \A j \in JobIds :
         v2Jobs[j].state \in TerminalJobStates
         => HasReadyArtifact(v2Jobs[j].artifacts) \/ v2Jobs[j].error # NoError
    /\ \A b \in BatchIds :
         v2Batches[b].state \in TerminalBatchStates
         => \/ v2Batches[b].error # NoError
            \/ \E i \in DOMAIN v2Batches[b].items :
                 \/ HasReadyArtifact(v2Batches[b].items[i].artifacts)
                 \/ v2Batches[b].items[i].error # NoError

(***************************************************************************)
(* C17.  A succeeded job has exactly the artifacts of its type ready: srt  *)
(* for asr; vocals, no_vocals and demucs_zip for demucs; all five for      *)
(* asr-demucs, whose result_zip is packed from exactly output.srt,         *)
(* vocals.mp3 and no_vocals.mp3, each of them a ready artifact.            *)
(***************************************************************************)
TypeArtifacts(type) ==
    CASE type = "asr" -> {"srt"}
      [] type = "demucs" -> {"vocals", "no_vocals", "demucs_zip"}
      [] type = "asr-demucs" -> ArtifactKeys

ReadyArtifacts(rec) == {key \in ArtifactKeys : rec.artifacts[key] = "ready"}

C17_ArtifactsOfType ==
    \A j \in JobIds :
        v2Jobs[j].state = "succeeded"
        => /\ ReadyArtifacts(v2Jobs[j]) = TypeArtifacts(v2Jobs[j].type)
           /\ "result_zip" \in ReadyArtifacts(v2Jobs[j])
              => /\ {e[2] : e \in resultZipEntries(v2Jobs[j])}
                      = {"output.srt", "vocals.mp3", "no_vocals.mp3"}
                 /\ \A e \in resultZipEntries(v2Jobs[j]) : <<j, 0, e[1]>> \in files

C17_Witness ==
    \E j \in JobIds :
        /\ v2Jobs[j].state = "succeeded"
        /\ v2Jobs[j].type = "demucs"
        /\ ReadyArtifacts(v2Jobs[j]) = {"vocals", "no_vocals", "demucs_zip"}

(***************************************************************************)
(* C18.  After the reconciliation of a load, each artifact entry of the    *)
(* loaded record is ready exactly when its file exists, and is not ready   *)
(* (its bytes dropped) otherwise: an entry recorded ready whose file is    *)
(* gone is loaded as not ready, and an entry is never made up.  Checked on *)
(* every restart, for the record the scan puts in the table.               *)
(***************************************************************************)
ReconciledWith(artifacts, before, present, id, k) ==
    \A key \in ArtifactKeys :
        /\ artifacts[key] = "ready" <=> (before[key] # "none" /\ <<id, k, key>> \in present)
        /\ artifacts[key] = "missing" <=> (before[key] # "none" /\ <<id, k, key>> \notin present)

C18_LoadReconciles ==
    [][restarts' = restarts + 1 =>
        /\ \A j \in JobIds :
             v2Jobs'[j] # NoJob
             => ReconciledWith(v2Jobs'[j].artifacts, diskJobs[j].artifacts, files', j, 0)
        /\ \A b \in BatchIds : \A k \in DOMAIN v2Batches'[b].items :
             ReconciledWith(v2Batches'[b].items[k].artifacts,
                            diskBatches[b].items[k].artifacts, files', b, k)]_vars

C18_Witness ==
    /\ restarts > 0
    /\ \E j \in JobIds :
        /\ diskJobs[j].artifacts["srt"] = "ready"
        /\ v2Jobs[j].artifacts["srt"] = "missing"
        /\ v2Jobs[j].artifacts["vocals"] = "ready"

(***************************************************************************)
(* C19.  Whenever the process dies, during or between metadata writes and  *)
(* inside the remove-and-retry fallback too, a load of the directory gives *)
(* the last record that was completely written onto the metadata path, or  *)
(* nothing; it never gives a record written in part or a mix of two.  The  *)
(* process may die in any state, so this is checked of every state.        *)
(***************************************************************************)
LastWritten == IF committed = <<>> THEN 0 ELSE committed[Len(committed)]

C19_LoadIsLastWrittenOrAbsent ==
    /\ readMeta(MetaDir) \in {0, LastWritten}
    /\ metaFile # NoContent => metaFile.complete

C19_Witness ==
    /\ restarts > 0
    /\ \A w \in Writers : pcW[w] = "idle"
    /\ Len(committed) >= 2
    /\ readMeta(MetaDir) = 0
    /\ \E w \in Writers : tmpFiles[w].complete

(***************************************************************************)
(* C20.  The reaper removes a job or a batch from memory and deletes its   *)
(* directory only when the record is terminal and its expiresAt is past: a *)
(* record that is queued or running, or whose expiresAt is not set or in   *)
(* the future, is never removed.  Checked on every step other than a       *)
(* restart that takes a record out of the table or takes away its          *)
(* metadata file or one of its artifact files.                             *)
(***************************************************************************)
Reaped(id, table, disk) ==
    /\ table[id].state # "absent"
    /\ \/ table'[id].state = "absent"
       \/ disk[id].state # "absent" /\ disk'[id].state = "absent"
       \/ \E f \in files \ files' : f[1] = id

C20_ReapOnlyTerminalExpired ==
    [][restarts' = restarts =>
        /\ \A j \in JobIds :
             Reaped(j, v2Jobs, diskJobs)
             => /\ v2Jobs[j].state \in TerminalJobStates
                /\ v2Jobs[j].expiresAt
                /\ j \in expired
        /\ \A b \in BatchIds :
             Reaped(b, v2Batches, diskBatches)
             => /\ v2Batches[b].state \in TerminalBatchStates
                /\ v2Batches[b].expiresAt
                /\ b \in expired]_vars

C20_Witness ==
    /\ restarts = 0
    /\ issued # {}
    /\ \A b \in BatchIds : v2Batches[b] = NoBatch /\ diskBatches[b] = NoBatch
    /\ \A j \in JobIds : v2Jobs[j] = NoJob /\ diskJobs[j] = NoJob
    /\ files = {}

(***************************************************************************)
(* C21.  A cancel request on a batch that is already terminal changes      *)
(* nothing in the batch record: state, phase, items, cancelRequested and   *)
(* the timestamps in the table and in batch.json stay as they were.  (For  *)
(* an id that is not in the table the endpoint answers not_found and       *)
(* CancelBatch is not enabled.)                                            *)
(***************************************************************************)
C21_CancelOnTerminalIsNoOp ==
    [][\A b \in BatchIds :
         (v2Batches[b].state \in TerminalBatchStates /\ CancelBatch(b))
         => UNCHANGED <<v2Batches, diskBatches>>]_vars

(***************************************************************************)
(* C22.  Creating a job or a batch with a VAD parameter, in the query or   *)
(* in the batch options, that is not a positive integer fails with         *)
(* bad_request and nothing is created.                                     *)
(***************************************************************************)
PositiveInteger(raw) == raw # <<>> /\ DigitPrefix(raw) = raw /\ DecimalValue(raw) > 0

GivenVad(post) ==
    ({post.query[i] : i \in DOMAIN post.query}
        \cup {post.options[i] : i \in DOMAIN post.options}) \ {<<>>}

C22_BadVadIsBadRequest ==
    (\E raw \in GivenVad(lastPost) : ~PositiveInteger(raw)) => lastPost.status = "bad_request"

(***************************************************************************)
(* C24.  At any moment at most one recognizer subprocess started by the    *)
(* supervisor is alive, across any sequence of recognize requests, worker  *)
(* exits, recognizer-reported failures and respawns.                       *)
(***************************************************************************)
C24_OneRecognizerAlive == Cardinality(Alive) <= 1

(***************************************************************************)
(* C25.  A recognize call whose worker dies while its request is in flight *)
(* is retried exactly once, on a freshly spawned worker; when the second   *)
(* attempt fails too the error is surfaced to the caller.  One call writes *)
(* its request to a worker at most twice.                                  *)
(***************************************************************************)
ChildDies == workerChild # 0 /\ procs[workerChild] # "exited" /\ procs'[workerChild] = "exited"

C25_RetriedOnce ==
    /\ [](asrCall.sends <= 2 /\ asrCall.attempt <= 2)
    /\ [][(ChildDies /\ asrCall.at = "sent" /\ asrCall.attempt = 1)
            => /\ asrCall'.attempt = 2
               /\ asrCall'.at = "starting"
               /\ procs[workerChild'] = "unborn"
               /\ procs'[workerChild'] = "starting"]_vars
    /\ [][(ChildDies /\ asrCall.at \in {"starting", "sent"} /\ asrCall.attempt = 2)
            => /\ asrCall'.at = "threw"
               /\ asrCall'.sends = asrCall.sends]_vars

C25_Witness ==
    /\ asrCall.at = "threw"
    /\ asrCall.sends = 2
    /\ asrCall.err = "none"

(***************************************************************************)
(* C26.  When the recognizer process exits, before it is ready or with a   *)
(* request in flight, every pending recognize request is failed: no call   *)
(* keeps waiting on a process that has exited.  And the failure that       *)
(* reaches the caller is classified as engine_error on the owning job or   *)
(* batch item.                                                             *)
(***************************************************************************)
C26_ExitFailsPendingAsEngineError ==
    /\ asrCall.at \in {"starting", "sent"} => workerChild \in Alive
    /\ (asrCall.at = "threw" /\ asrCall.err = "none")
       => asrErrorCode(asrCall.err) = "engine_error"

\* The phases a job of each type goes through, from the phase it is created
\* with to the phase of success.
PhasePath(type) ==
    CASE type = "asr" -> <<"queued", "asr_convert", "asr", "done">>
      [] type = "demucs" -> <<"queued", "demucs", "zip_demucs", "done">>
      [] type = "asr-demucs" ->
            <<"queued", "asr_convert", "asr", "demucs", "zip_demucs", "zip_result", "done">>

\* Phase `to` is the one that follows `from` on the path of the type.
FollowsOnPath(type, from, to) ==
    \E i \in 1..(Len(PhasePath(type)) - 1) :
        PhasePath(type)[i] = from /\ PhasePath(type)[i + 1] = to

\* The phase of job j changes in this step.
PhaseMoves(j) ==
    /\ v2Jobs[j] # NoJob
    /\ v2Jobs'[j] # NoJob
    /\ v2Jobs'[j].phase # v2Jobs[j].phase

\* C27: whenever the phase of a job changes, either the new phase is the one
\* that follows the old one in the declared order restricted to the phases
\* of the job's type (so no phase of the type is skipped, no phase of
\* another type is visited and no earlier phase comes back), or the new
\* phase is error and the job is failed with an error recorded.
C27_PhaseForwardOnly ==
    [][\A j \in JobIds :
          PhaseMoves(j) =>
             \/ FollowsOnPath(v2Jobs[j].type, v2Jobs[j].phase, v2Jobs'[j].phase)
             \/ /\ v2Jobs'[j].phase = "error"
                /\ v2Jobs'[j].state = "failed"
                /\ v2Jobs'[j].error # NoError]_vars

\* A combined job has gone through its whole path.
C27_Witness ==
    \E j \in JobIds :
        /\ v2Jobs[j] # NoJob
        /\ v2Jobs[j].type = "asr-demucs"
        /\ v2Jobs[j].phase = "done"
        /\ pcJ[j].at = "done"

\* C28: a job that is running is in a phase of its type and never in phase
\* queued, in the table and in the persisted record.
C28_RunningIsPastQueued ==
    \A j \in JobIds :
        /\ (v2Jobs[j] # NoJob /\ v2Jobs[j].state = "running") => v2Jobs[j].phase # "queued"
        /\ (diskJobs[j] # NoJob /\ diskJobs[j].state = "running") => diskJobs[j].phase # "queued"

\* Faulty variant of artifactUrl: every artifact of the record gets a url.
artifactUrlAlways(a) == TRUE

\* mkArtifact and its twin in v2JobToResponse: the url member is there when
\* a.ready is true and undefined otherwise.
artifactUrl(a) == a = "ready"

\* The artifacts member of a status response: one entry for each artifact
\* the record has, with its ready flag and whether it carries a url.
responseArtifacts(artifacts) ==
    [k \in {key \in ArtifactKeys : artifacts[key] # "none"} |->
        [ready |-> artifacts[k] = "ready", url |-> artifactUrl(artifacts[k])]]

\* The lookup of both artifact endpoints: no artifact of that name, or one
\* that is not ready, is a 404 not_found; else the file is sent.
artifactRequest(artifacts, key) ==
    IF artifacts[key] = "none" \/ artifacts[key] # "ready" THEN "not_found" ELSE "download"

\* GET /v2/jobs/:id/artifacts/:name.
jobArtifactRequest(j, key) ==
    IF v2Jobs[j] = NoJob THEN "not_found" ELSE artifactRequest(v2Jobs[j].artifacts, key)

\* GET /v2/batches/:id/items/:idx/artifacts/:name for item k (idx = k - 1).
itemArtifactRequest(b, k, key) ==
    IF v2Batches[b] = NoBatch THEN "not_found"
    ELSE IF k - 1 < 0 \/ k - 1 >= Len(v2Batches[b].items) THEN "not_found"
    ELSE artifactRequest(v2Batches[b].items[k].artifacts, key)

\* The response of a record's artifacts carries a url exactly for the ready
\* ones, and a request for one that is absent or not ready is not_found.
NeverExposed(artifacts, answer(_)) ==
    \A key \in ArtifactKeys :
        /\ key \in DOMAIN responseArtifacts(artifacts)
           => /\ responseArtifacts(artifacts)[key].ready = (artifacts[key] = "ready")
              /\ responseArtifacts(artifacts)[key].url = (artifacts[key] = "ready")
        /\ artifacts[key] # "ready" => answer(key) = "not_found"

\* C23: in every state, the status response of every job and of every batch
\* item carries a url for an artifact if and only if the artifact is ready,
\* and a download request for an artifact that the record does not have or
\* that is not ready is answered not_found.
C23_NotReadyNeverExposed ==
    /\ \A j \in JobIds :
         v2Jobs[j] # NoJob =>
            LET answer(key) == jobArtifactRequest(j, key)
            IN NeverExposed(v2Jobs[j].artifacts, answer)
    /\ \A b \in BatchIds :
         v2Batches[b] # NoBatch =>
            \A k \in 0..(Len(v2Batches[b].items) + 1) :
               LET answer(key) == itemArtifactRequest(b, k, key)
               IN IF k \in DOMAIN v2Batches[b].items
                  THEN NeverExposed(v2Batches[b].items[k].artifacts, answer)
                  ELSE \A key \in ArtifactKeys : answer(key) = "not_found"

\* A loaded job has an artifact whose file was lost (recorded, not ready),
\* one that is ready and one it never had.
C23_Witness ==
    /\ restarts > 0
    /\ \E j \in JobIds :
        /\ v2Jobs[j] # NoJob
        /\ \E k1, k2, k3 \in ArtifactKeys :
            /\ v2Jobs[j].artifacts[k1] = "missing"
            /\ v2Jobs[j].artifacts[k2] = "ready"
            /\ v2Jobs[j].artifacts[k3] = "none"
            /\ jobArtifactRequest(j, k1) = "not_found"
            /\ jobArtifactRequest(j, k2) = "download"

(***************************************************************************)
(* Status polls while a record's artifacts are produced.  The engine is    *)
(* suspended in one await at a time; a GET handler runs to its end between *)
(* two resumptions and reads the table.                                    *)
(***************************************************************************)

PollFrame ==
    UNCHANGED <<queueVars, batchVars, jobVars, files, inputs, issued, expired, restarts,
                diskFaults, writeVars, vadVars, workerVars, scanVars, createVars, supVars>>

Stat(key) == [op |-> "stat", key |-> key]
Persist == [op |-> "persist", key |-> "none"]
Engine == [op |-> "io", key |-> "none"]

\* The awaits of runV2Job for a combined job from the recognizer call on:
\* ensureV2Artifact awaits safeStatBytes, sets the artifact and awaits
\* persistV2Job; the phases are persisted and the engines awaited between.
JobAwaits ==
    <<Engine, Stat("srt"), Persist,
      Persist, Engine, Stat("vocals"), Persist, Stat("no_vocals"), Persist,
      Persist, Engine, Stat("demucs_zip"), Persist,
      Persist, Engine, Stat("result_zip"), Persist, Persist>>

\* The awaits of runV2Batch for one item of a batch with both tasks:
\* ensureBatchArtifact awaits safeStatBytes and sets the artifact, and the
\* batch is persisted where runV2Batch calls persistV2Batch.
ItemAwaits ==
    <<Engine, Stat("srt"), Engine, Persist,
      Persist, Engine, Stat("vocals"), Stat("no_vocals"), Persist,
      Engine, Stat("demucs_zip"), Persist,
      Engine, Stat("result_zip"), Engine, Persist>>

Awaits(kind) == IF kind = "job" THEN JobAwaits ELSE ItemAwaits

\* The queue calls the engine function of the record: it runs to its first
\* await of the list.
Produce(kind) ==
    /\ pcP = NotProduced
    /\ pcP' = [kind |-> kind, await |-> 1]
    /\ UNCHANGED <<tableArtifacts, metaArtifacts, polled>>
    /\ PollFrame

\* The await the engine is suspended in completes and the engine runs to
\* its next await: after safeStatBytes the artifact is set ready in the
\* table; a completed persist has written the record as it was when the
\* persist was called, which is the table's, the engine being the one that
\* changes artifacts.
Resume ==
    /\ pcP.kind # "none"
    /\ pcP.await <= Len(Awaits(pcP.kind))
    /\ LET a == Awaits(pcP.kind)[pcP.await]
       IN /\ tableArtifacts' = IF a.op = "stat"
                               THEN [tableArtifacts EXCEPT ![a.key] = "ready"]
                               ELSE tableArtifacts
          /\ metaArtifacts' = IF a.op = "persist" THEN tableArtifacts ELSE metaArtifacts
    /\ pcP' = [pcP EXCEPT !.await = @ + 1]
    /\ UNCHANGED polled
    /\ PollFrame

\* GET /v2/jobs/:id or GET /v2/batches/:id: the response is built from the
\* record in the table.  `written` is what the metadata file holds then.
StatusPoll ==
    /\ pcP.kind # "none"
    /\ polled' = [kind |-> pcP.kind,
                  ready |-> {key \in DOMAIN responseArtifacts(tableArtifacts) :
                                responseArtifacts(tableArtifacts)[key].ready},
                  written |-> {key \in ArtifactKeys : metaArtifacts[key] = "ready"}]
    /\ UNCHANGED <<pcP, tableArtifacts, metaArtifacts>>
    /\ PollFrame

NextPoll ==
    \/ \E kind \in {"job", "item"} : Produce(kind)
    \/ Resume
    \/ StatusPoll

SpecPoll == Init /\ [][NextPoll]_vars

\* C29: every artifact a status poll shows as ready is ready in the
\* metadata write that completed last before the poll, for jobs and for
\* batch items.
C29_ReadySeenAfterPersist ==
    polled # NoPoll => polled.ready \subseteq polled.written

\* The other half of C29: once a persist has completed after the artifact
\* was set, polls show it.
PolledNoLaterThanNextPersist ==
    \A key \in ArtifactKeys : metaArtifacts[key] = "ready" => tableArtifacts[key] = "ready"

(***************************************************************************)
(* One job on a disk that can start to refuse metadata writes.             *)
(***************************************************************************)

\* From now on a write of a metadata file may fail (disk full, directory
\* removed, permissions): writeJsonAtomic throws and persistV2Job with it.
DiskFails ==
    /\ ~diskFaults
    /\ diskFaults' = TRUE
    /\ UNCHANGED <<queueVars, batchVars, jobVars, files, inputs, issued, expired, restarts,
                   sideVars>>

\* A step of runV2Job, and of the queue when runV2Job has ended.
JobEngineStep(j) ==
    \/ JobEnter(j)
    \/ JobConvertDone(j)
    \/ JobRecognizeDone(j)
    \/ JobAfterAsr(j)
    \/ JobDemucsDone(j)
    \/ JobPublishNoVocals(j)
    \/ JobEnterZipDemucs(j)
    \/ JobZipDemucsDone(j)
    \/ JobAfterDemucs(j)
    \/ JobZipResultDone(j)
    \/ JobFinish(j)
    \/ JobCatch(j)
    \/ JobFinally(j)
    \/ JobReturns(j)
    \/ JobThrows(j)

NextFaults ==
    \/ DiskFails
    \/ \E j \in JobIds :
        \/ FirstRecord /\ CreateJob(j)
        \/ JobEngineStep(j)

\* Every await of runV2Job eventually completes: each engine call and each
\* file operation returns or fails.
SpecFaults == Init /\ [][NextFaults]_vars /\ \A j \in JobIds : WF_vars(JobEngineStep(j))

\* C30: a job that the queue has dispatched (state running) eventually is
\* succeeded or failed in the table, also when a persist inside runV2Job
\* fails.
C30_DispatchedJobEnds ==
    \A j \in JobIds :
        (v2Jobs[j] # NoJob /\ v2Jobs[j].state = "running")
            ~> (v2Jobs[j] # NoJob /\ v2Jobs[j].state \in {"succeeded", "failed"})

\* The part of C30 that holds: a failure inside the try block of runV2Job,
\* a failed persist included, ends with the job failed in the table.
CaughtErrorIsRecorded ==
    \A j \in JobIds :
        pcJ[j].at \in {"finally", "done"}
            => v2Jobs[j].state \in {"succeeded", "failed"}

\* Item k of the record has left state queued at some time: it is in
\* another state now, or it has been started (an item that waits for stage 2
\* is queued again and keeps its startedAt).
HasLeftQueued(rec, k) == rec.items[k].state # "queued" \/ rec.items[k].startedAt

\* C31: in every state, a batch is in state running if and only if at least
\* one of its items has ever left state queued.
C31_RunningIffItemLeftQueued ==
    \A b \in BatchIds :
        v2Batches[b] # NoBatch =>
            (v2Batches[b].state = "running"
                <=> \E k \in DOMAIN v2Batches[b].items : HasLeftQueued(v2Batches[b], k))

\* Item k of batch b is started in this step, in the stage with this phase.
ItemStarts(b, k, phase) ==
    /\ v2Batches[b] # NoBatch
    /\ v2Batches'[b] # NoBatch
    /\ k \in DOMAIN v2Batches[b].items
    /\ k \in DOMAIN v2Batches'[b].items
    /\ v2Batches[b].items[k].state # "running"
    /\ v2Batches'[b].items[k].state = "running"
    /\ v2Batches'[b].items[k].phase = phase

Stage2Phases == {"demucs", "zip_demucs", "zip_result"}

\* C32: an item is started in stage 1 only when every item of lower index
\* has been started before and no item of higher index has; an item is
\* started in stage 2 only when it is queued and free of error (with its
\* srt ready when the batch asks for ASR), when no item of lower index is
\* still queued and no item of higher index has been in stage 2; and when
\* stage 2 ends without a cancel no item is left queued, the succeeded ones
\* having been through the separator.
C32_StagesInIndexOrder ==
    [][\A b \in BatchIds :
         LET rec == v2Batches[b]
         IN /\ \A k \in 1..MaxItems :
                 ItemStarts(b, k, "asr_convert") =>
                    /\ rec.phase = "asr"
                    /\ rec.items[k].state = "queued"
                    /\ \A j \in DOMAIN rec.items :
                          /\ j < k => rec.items[j].startedAt /\ rec.items[j].state # "running"
                          /\ j > k => ~rec.items[j].startedAt
            /\ \A k \in 1..MaxItems :
                 ItemStarts(b, k, "demucs") =>
                    /\ rec.phase = "demucs"
                    /\ rec.items[k].state = "queued"
                    /\ rec.items[k].error = NoError
                    /\ rec.tasks.asr => rec.items[k].artifacts["srt"] = "ready"
                    /\ \A j \in DOMAIN rec.items :
                          /\ j < k => rec.items[j].state \notin {"queued", "running"}
                          /\ j > k => /\ rec.items[j].phase \notin Stage2Phases
                                      /\ rec.items[j].artifacts["vocals"] = "none"
            /\ (pcB[b].at = "s2" /\ pcB'[b].at = "done" /\ v2Batches'[b].state # "canceled")
                 => \A j \in DOMAIN rec.items :
                       /\ v2Batches'[b].items[j].state \in {"succeeded", "failed"}
                       /\ v2Batches'[b].items[j].state = "succeeded"
                            => v2Batches'[b].items[j].artifacts["demucs_zip"] = "ready"]_vars

\* The second item is with the separator after the first failed in stage 1.
C32_Witness ==
    \E b \in BatchIds :
        /\ v2Batches[b] # NoBatch
        /\ Len(v2Batches[b].items) = 2
        /\ v2Batches[b].tasks.asr
        /\ v2Batches[b].items[1].state = "failed"
        /\ v2Batches[b].items[1].artifacts["vocals"] = "none"
        /\ v2Batches[b].items[2].state = "running"
        /\ v2Batches[b].items[2].phase = "demucs"
        /\ pcB[b] = At("s2_demucs", 2)

\* C33: a step that starts an item of a batch (queued to running, in either
\* stage) is taken with cancelRequested unset before it and after it, so no
\* item is started once the flag is set.
C33_NoStartAfterCancel ==
    [][\A b \in BatchIds : \A k \in 1..MaxItems :
          (\E phase \in {"asr_convert", "demucs"} : ItemStarts(b, k, phase))
             => /\ v2Batches[b].items[k].state = "queued"
                /\ ~v2Batches[b].cancelRequested
                /\ ~v2Batches'[b].cancelRequested]_vars

\* The flag was set while the first item was in stage 1, and the second
\* item was canceled without having been started.
C33_Witness ==
    \E b \in BatchIds :
        /\ v2Batches[b] # NoBatch
        /\ v2Batches[b].cancelRequested
        /\ v2Batches[b].phase = "asr"
        /\ Len(v2Batches[b].items) = 2
        /\ v2Batches[b].items[1].startedAt
        /\ v2Batches[b].items[2].state = "canceled"
        /\ ~v2Batches[b].items[2].startedAt
        /\ pcB[b] = At("cancel", 2)

\* C34: whenever a batch is succeeded, failed or canceled, each of its items
\* is succeeded, failed or canceled.
C34_TerminalBatchHasTerminalItems ==
    \A b \in BatchIds :
        (v2Batches[b] # NoBatch /\ v2Batches[b].state \in {"succeeded", "failed", "canceled"})
            => \A k \in DOMAIN v2Batches[b].items :
                  v2Batches[b].items[k].state \in {"succeeded", "failed", "canceled"}

\* The catch-all path of C34: the batch was failed by the catch block of
\* runV2Batch while an item was in a pack step.
CatchLeavesItemRunning ==
    \E b \in BatchIds :
        /\ v2Batches[b].state = "failed"
        /\ v2Batches[b].phase = "error"
        /\ v2Batches[b].error.code = "internal_error"
        /\ \E k \in DOMAIN v2Batches[b].items : v2Batches[b].items[k].state = "running"

\* Every record serialised so far has been renamed onto the path: no call
\* is under way and none has thrown.
AllWritten ==
    /\ \A w \in Writers : pcW[w] = "idle"
    /\ \A v \in 1..(NextVersion - 1) : \E i \in DOMAIN committed : committed[i] = v

\* C35: the records renamed onto batch.json come in the order in which they
\* were serialised, and when no write is in progress and none has failed the
\* file holds the record serialised last, which is the one in memory.
C35_DiskFollowsMemory ==
    /\ \A i \in DOMAIN committed : \A k \in DOMAIN committed :
          i < k => committed[i] < committed[k]
    /\ (restarts = 0 /\ AllWritten /\ committed # <<>>)
          => metaFile.version = NextVersion - 1

(***************************************************************************)
(* The startup scans next to the HTTP server.  The module calls            *)
(* loadV2JobsFromDisk and loadV2BatchesFromDisk without awaiting them and  *)
(* then app.listen, so requests are served while the scans run.            *)
(***************************************************************************)

ScanFrame ==
    UNCHANGED <<queueVars, pcB, batchTask, pcJ, jobTask, issued, expired, restarts,
                diskFaults, writeVars, vadVars, workerVars, pollVars, createVars, supVars>>

ScanIds(kind) == IF kind = "jobs" THEN JobIds ELSE BatchIds

\* The directories a readdir finds.  A request makes the directory of its
\* record and writes the metadata file in it.
ScanDirs(kind) ==
    IF kind = "jobs" THEN {j \in JobIds : diskJobs[j] # NoJob}
    ELSE {b \in BatchIds : diskBatches[b] # NoBatch}

\* The process starts: both scans call readdir and the server listens.
ProcessStarts ==
    /\ \A kind \in ScanKinds : scanAt[kind] = "off"
    /\ scanAt' = [kind \in ScanKinds |-> "readdir"]
    /\ UNCHANGED <<scanEntries, scanReplaced, v2Jobs, diskJobs, v2Batches, diskBatches,
                   files, inputs>>
    /\ ScanFrame

\* readdir answers with the directories that are there when it is carried
\* out, which is any time between the call and the answer.
ReaddirDone(kind) ==
    /\ scanAt[kind] = "readdir"
    /\ scanAt' = [scanAt EXCEPT ![kind] = "loop"]
    /\ scanEntries' = [scanEntries EXCEPT ![kind] = ScanDirs(kind)]
    /\ UNCHANGED <<scanReplaced, v2Jobs, diskJobs, v2Batches, diskBatches, files, inputs>>
    /\ ScanFrame

\* One iteration of the loop of loadV2JobsFromDisk, for entry j.
ScanJob(j) ==
    /\ scanAt["jobs"] = "loop"
    /\ j \in scanEntries["jobs"]
    /\ scanEntries' = [scanEntries EXCEPT !["jobs"] = @ \ {j}]
    /\ v2Jobs' = IF LoadedJob(files, j) = NoJob THEN v2Jobs
                 ELSE [v2Jobs EXCEPT ![j] = LoadedJob(files, j)]
    /\ diskJobs' = [diskJobs EXCEPT ![j] = ScannedJobFile(files, j)]
    /\ scanReplaced' = IF LoadedJob(files, j) = NoJob THEN scanReplaced
                       ELSE scanReplaced \cup {j}
    /\ files' = IF tryLoadV2Job(files, j) # NoJob /\ LoadedJob(files, j) = NoJob
                THEN {f \in files : f[1] # j} ELSE files
    /\ inputs' = IF tryLoadV2Job(files, j) # NoJob /\ LoadedJob(files, j) = NoJob
                 THEN inputs \ JobDirInputs(j, diskJobs[j]) ELSE inputs
    /\ UNCHANGED <<scanAt, v2Batches, diskBatches>>
    /\ ScanFrame

\* One iteration of the loop of loadV2BatchesFromDisk, for entry b.
ScanBatch(b) ==
    /\ scanAt["batches"] = "loop"
    /\ b \in scanEntries["batches"]
    /\ scanEntries' = [scanEntries EXCEPT !["batches"] = @ \ {b}]
    /\ v2Batches' = IF LoadedBatch(files, b) = NoBatch THEN v2Batches
                    ELSE [v2Batches EXCEPT ![b] = LoadedBatch(files, b)]
    /\ diskBatches' = [diskBatches EXCEPT ![b] = ScannedBatchFile(files, b)]
    /\ scanReplaced' = IF LoadedBatch(files, b) = NoBatch THEN scanReplaced
                       ELSE scanReplaced \cup {b}
    /\ files' = IF tryLoadV2Batch(files, b) # NoBatch /\ LoadedBatch(files, b) = NoBatch
                THEN {f \in files : f[1] # b} ELSE files
    /\ inputs' = IF tryLoadV2Batch(files, b) # NoBatch /\ LoadedBatch(files, b) = NoBatch
                 THEN inputs \ BatchDirInputs(b, diskBatches[b]) ELSE inputs
    /\ UNCHANGED <<scanAt, v2Jobs, diskJobs>>
    /\ ScanFrame

\* The loop has no entry left: the scan returns.
ScanEnds(kind) ==
    /\ scanAt[kind] = "loop"
    /\ scanEntries[kind] = {}
    /\ scanAt' = [scanAt EXCEPT ![kind] = "done"]
    /\ UNCHANGED <<scanEntries, scanReplaced, v2Jobs, diskJobs, v2Batches, diskBatches,
                   files, inputs>>
    /\ ScanFrame

\* A step of runV2Job that ends without throwing.
JobTableStep(j) ==
    \/ JobEnter(j)
    \/ JobConvertDone(j)
    \/ JobRecognizeDone(j)
    \/ JobAfterAsr(j)
    \/ JobDemucsDone(j)
    \/ JobPublishNoVocals(j)
    \/ JobEnterZipDemucs(j)
    \/ JobZipDemucsDone(j)
    \/ JobAfterDemucs(j)
    \/ JobZipResultDone(j)
    \/ JobFinish(j)
    \/ JobCatch(j)
    \/ JobFinally(j)
    \/ JobReturns(j)

\* The server is listening.
Listening == \A kind \in ScanKinds : scanAt[kind] # "off"

\* A process started on empty directories, with one create request served
\* at any time after app.listen.  The engine works on the object it was
\* given; once the scan has put another object in the table under the same
\* id the engine's steps no longer show in the table and are not followed.
NextScan ==
    \/ ProcessStarts
    \/ \E kind \in ScanKinds : ReaddirDone(kind) \/ ScanEnds(kind)
    \/ \E j \in JobIds :
        \/ Listening /\ FirstRecord /\ CreateJob(j)
        \/ ScanJob(j)
        \/ j \notin scanReplaced /\ JobTableStep(j)
    \/ \E b \in BatchIds :
        \/ Listening /\ FirstRecord /\ CreateBatch(b)
        \/ ScanBatch(b)
        \/ b \notin scanReplaced /\ CancelBatch(b)
        \/ b \notin scanReplaced /\ BatchEngineStep(b)

SpecScan == Init /\ [][NextScan]_vars

\* C36: the only records of SpecScan are created by requests served after
\* the process has started.  None of them is ever marked as interrupted by a
\* restart, and the table entry of none is ever set by a scan.
C36_ScanSparesNewRecords ==
    /\ scanReplaced = {}
    /\ \A j \in JobIds : v2Jobs[j].error # JobInterrupted /\ diskJobs[j].error # JobInterrupted
    /\ \A b \in BatchIds :
          v2Batches[b].error # BatchInterrupted /\ diskBatches[b].error # BatchInterrupted

\* The part of C36 that holds: a record created after readdir has answered
\* is not among the entries of the scan.
CreatedAfterReaddirIsSpared ==
    [][\A j \in JobIds :
          (scanAt["jobs"] \in {"loop", "done"} /\ diskJobs[j] = NoJob)
             => \A kind \in ScanKinds : j \notin scanEntries'[kind]]_vars

(***************************************************************************)
(* The validation of create requests and what a request leaves behind.     *)
(* An item of a batch request is its kind and whether the member that kind *)
(* needs is usable (fileIndex names an uploaded file, audioUrl or          *)
(* audioPath is a non-empty string).                                       *)
(***************************************************************************)

CreateFrame ==
    UNCHANGED <<queueVars, batchVars, jobVars, files, inputs, issued, expired, restarts,
                diskFaults, writeVars, vadVars, workerVars, pollVars, scanVars, supVars>>

ItemKinds == {"upload", "audioPath", "audioUrl", "other"}
ItemInputs == [kind : ItemKinds, usable : BOOLEAN]
ItemLists == UNION {[1..n -> ItemInputs] : n \in 0..MaxItems}

\* The most items a batch may have.
MaxBatchItems == 10

\* The kinds whose input file the handler puts under the record directory.
OwnedKinds == {"upload", "audioUrl"}

\* What the handler answers and leaves behind.
Created(endpoint, request, dir, moved) ==
    [endpoint |-> endpoint, request |-> request, status |-> 202, code |-> "none",
     dir |-> dir, moved |-> moved, recorded |-> TRUE, enqueued |-> TRUE]
Rejected(endpoint, request, dir, moved) ==
    [endpoint |-> endpoint, request |-> request, status |-> 400, code |-> "bad_request",
     dir |-> dir, moved |-> moved, recorded |-> FALSE, enqueued |-> FALSE]

\* POST /v2/jobs with a valid type and valid VAD parameters: the job
\* directory is made, then resolveAudioInput throws when the request has no
\* audio; an upload or a download is moved into the job directory.
postJob(request) ==
    IF request.audio = "none"
    THEN Rejected("jobs", request, TRUE, {})
    ELSE Created("jobs", request, TRUE, IF request.audio \in OwnedKinds THEN {0} ELSE {})

\* The materialize loop of POST /v2/batches from index k on (1-based), with
\* the inputs `moved` so far: the kind is tested, the item directory is made
\* and materializeItem throws on an unusable member or moves the input.
RECURSIVE materialize(_, _, _)
materialize(request, k, moved) ==
    IF k > Len(request.items) THEN Created("batches", request, TRUE, moved)
    ELSE LET input == request.items[k]
         IN IF input.kind = "other" \/ ~input.usable
            THEN Rejected("batches", request, TRUE, moved)
            ELSE materialize(request, k + 1,
                             IF input.kind \in OwnedKinds THEN moved \cup {k} ELSE moved)

\* POST /v2/batches: the batch directory is made with inputs/ and items/ in
\* it; then the items member is parsed and its length tested; then the loop.
\* `more` is the number of further items of the request, all usable.
postBatch(request) ==
    IF request.multipart /\ ~request.itemsParse THEN Rejected("batches", request, TRUE, {})
    ELSE IF ~request.isArray THEN Rejected("batches", request, TRUE, {})
    ELSE IF Len(request.items) + request.more < 1 \/ Len(request.items) + request.more > MaxBatchItems
    THEN Rejected("batches", request, TRUE, {})
    ELSE materialize(request, 1, {})

JobRequests == [audio : {"none", "upload", "audioPath", "audioUrl"}]
BatchRequests ==
    [multipart : BOOLEAN, itemsParse : BOOLEAN, isArray : BOOLEAN, items : ItemLists,
     more : {0, MaxBatchItems + 1}]

\* A create request is handled.
PostJob ==
    /\ lastCreate = NoCreate
    /\ \E request \in JobRequests : lastCreate' = postJob(request)
    /\ CreateFrame

PostBatch ==
    /\ lastCreate = NoCreate
    /\ \E request \in BatchRequests : lastCreate' = postBatch(request)
    /\ CreateFrame

NextCreate == PostJob \/ PostBatch

SpecCreate == Init /\ [][NextCreate]_vars

\* C37: a create request that is rejected has left no directory and no
\* moved input, no record in the table and no task in the queue.
C37_RejectedLeavesNothing ==
    lastCreate.status = 400
        => /\ ~lastCreate.dir
           /\ lastCreate.moved = {}
           /\ ~lastCreate.recorded
           /\ ~lastCreate.enqueued

\* The part of C37 that holds: no record and no task.
RejectedIsNotRecorded ==
    lastCreate.status = 400 => ~lastCreate.recorded /\ ~lastCreate.enqueued

\* A batch request was rejected at its second item after the upload of the
\* first was moved into the batch directory.
RejectedAfterMove ==
    /\ lastCreate.status = 400
    /\ lastCreate.moved = {1}

(***************************************************************************)
(* One PythonAsrWorker under several callers of requestAsr.  A step is one *)
(* turn of the event loop: a call of requestAsr up to its first await that *)
(* waits for an event, or the handling of one event of the subprocess with *)
(* the continuations it releases.                                          *)
(***************************************************************************)

SupervisorFrame ==
    UNCHANGED <<queueVars, batchVars, jobVars, files, inputs, issued, expired, restarts,
                diskFaults, writeVars, vadVars, workerVars, pollVars, scanVars, createVars>>

\* requestAsr after ensureStarted has returned, for the callers cs in this
\* order: each takes the next id, is put in this.pending and has its request
\* written to child.stdin.
RECURSIVE writeRequests(_, _, _, _, _)
writeRequests(cs, child, calls, id, acc) ==
    IF cs = <<>> THEN [calls |-> calls, nextId |-> id, written |-> acc]
    ELSE writeRequests(Tail(cs), child,
                       [calls EXCEPT ![Head(cs)] = [at |-> "pending", id |-> id, outcome |-> "none"]],
                       id + 1, acc \cup {id})

\* The promises of the requests `ids` are settled with `outcome`.
settle(calls, ids, outcome) ==
    [c \in Callers |-> IF calls[c].at = "pending" /\ calls[c].id \in ids
                       THEN [calls[c] EXCEPT !.at = "settled", !.outcome = outcome]
                       ELSE calls[c]]

\* Faulty variant of matched: a result settles the oldest pending request.
matchedOldest(id) ==
    IF wPending = {} THEN {} ELSE {CHOOSE x \in wPending : \A y \in wPending : x <= y}

\* this.pending.get(m.id): the pending request a result line is for.
matched(id) == IF id \in wPending THEN {id} ELSE {}

\* Caller c calls requestAsr.  ensureStarted returns at once when there is a
\* child, returns the promise of the start under way when there is one, and
\* else spawns a subprocess and waits for its ready line.
RequestAsr(c) ==
    /\ wCalls[c].at = "idle"
    /\ IF wChild # 0
       THEN LET w == writeRequests(<<c>>, wChild, wCalls, wNextId, {})
            IN /\ wCalls' = w.calls
               /\ wNextId' = w.nextId
               /\ wPending' = wPending \cup w.written
               /\ wWrites' = wWrites \cup {<<id, wChild, wProcs[wChild] = "ready">> : id \in w.written}
               /\ UNCHANGED <<wProcs, wChild, wStarting, wReady, wWaiters>>
       ELSE IF wStarting
       THEN /\ wCalls' = [wCalls EXCEPT ![c].at = "starting"]
            /\ wWaiters' = Append(wWaiters, c)
            /\ UNCHANGED <<wProcs, wChild, wStarting, wReady, wNextId, wPending, wWrites>>
       ELSE LET p == CHOOSE q \in Pids : wProcs[q] = "unborn" /\ \A r \in Pids : wProcs[r] = "unborn" => q <= r
            IN /\ \E q \in Pids : wProcs[q] = "unborn"
               /\ wProcs' = [wProcs EXCEPT ![p] = "starting"]
               /\ wChild' = p
               /\ wStarting' = TRUE
               /\ wReady' = FALSE
               /\ wCalls' = [wCalls EXCEPT ![c].at = "starting"]
               /\ wWaiters' = Append(wWaiters, c)
               /\ UNCHANGED <<wNextId, wPending, wWrites>>
    /\ UNCHANGED wSettled
    /\ SupervisorFrame

\* The child prints its ready line: onStdout sets this.ready, waitForReady
\* resolves, this.starting is cleared and the callers awaiting it go on to
\* write their requests.
WorkerReady(p) ==
    /\ wProcs[p] = "starting"
    /\ p = wChild
    /\ wProcs' = [wProcs EXCEPT ![p] = "ready"]
    /\ wReady' = TRUE
    /\ wStarting' = FALSE
    /\ LET w == writeRequests(wWaiters, p, wCalls, wNextId, {})
       IN /\ wCalls' = w.calls
          /\ wNextId' = w.nextId
          /\ wPending' = wPending \cup w.written
          /\ wWrites' = wWrites \cup {<<id, p, TRUE>> : id \in w.written}
    /\ wWaiters' = <<>>
    /\ UNCHANGED <<wChild, wSettled>>
    /\ SupervisorFrame

\* The child prints a result line with this id: the pending request of that
\* id is taken out of this.pending and resolved (ok with an srtPath) or
\* rejected; without such a request the line is passed over.
WorkerResult(p, id, ok) ==
    /\ p = wChild
    /\ wProcs[p] = "ready"
    /\ wPending' = wPending \ matched(id)
    /\ wCalls' = settle(wCalls, matched(id), IF ok THEN "resolved" ELSE "PY_ASR_FAILED")
    /\ wSettled' = [x \in RequestIds |-> IF x \in matched(id) THEN wSettled[x] + 1 ELSE wSettled[x]]
    /\ UNCHANGED <<wProcs, wChild, wStarting, wReady, wNextId, wWaiters, wWrites>>
    /\ SupervisorFrame

\* The child closes: every pending request is rejected, this.pending is
\* cleared, this.child and this.starting are forgotten, and the callers
\* that await the ready line are rejected by waitForReady.
WorkerExit(p) ==
    /\ p = wChild
    /\ wProcs[p] \in {"starting", "ready"}
    /\ wProcs' = [wProcs EXCEPT ![p] = "exited"]
    /\ wChild' = 0
    /\ wStarting' = FALSE
    /\ wPending' = {}
    /\ wSettled' = [x \in RequestIds |-> IF x \in wPending THEN wSettled[x] + 1 ELSE wSettled[x]]
    /\ wCalls' = [c \in Callers |->
            IF wCalls[c].at = "starting"
            THEN [wCalls[c] EXCEPT !.at = "settled", !.outcome = "exited"]
            ELSE settle(wCalls, wPending, "exited")[c]]
    /\ wWaiters' = <<>>
    /\ UNCHANGED <<wReady, wNextId, wWrites>>
    /\ SupervisorFrame

NextSupervisor ==
    \/ \E c \in Callers : RequestAsr(c)
    \/ \E p \in Pids :
        \/ WorkerReady(p)
        \/ \E id \in ResultIds, ok \in BOOLEAN : WorkerResult(p, id, ok)
        \/ WorkerExit(p)

SpecSupervisor == Init /\ [][NextSupervisor]_vars

\* A result line with this id is handled in this step.
ResultHandled(id) == \E p \in Pids, ok \in BOOLEAN : WorkerResult(p, id, ok)

\* C38: a result line settles exactly the pending request whose id is the
\* result's id, a result whose id matches no pending request changes no
\* request and no entry of the pending map, and no request is settled more
\* than once.
C38_ResultSettlesItsRequest ==
    /\ [](\A id \in RequestIds : wSettled[id] <= 1)
    /\ [][\A id \in ResultIds : ResultHandled(id) =>
            /\ wPending' = wPending \ {id}
            /\ \A c \in Callers :
                IF wCalls[c].at = "pending" /\ wCalls[c].id = id
                THEN wCalls'[c].at = "settled" /\ wCalls'[c].outcome \in {"resolved", "PY_ASR_FAILED"}
                ELSE wCalls'[c] = wCalls[c]]_vars

\* Two requests were pending together and the later one has been answered
\* first, the earlier one still pending.
C38_Witness ==
    \E c, d \in Callers :
        /\ wCalls[c].at = "pending"
        /\ wCalls[d].at = "settled"
        /\ wCalls[d].outcome \in {"resolved", "PY_ASR_FAILED"}
        /\ wCalls[c].id < wCalls[d].id
        /\ wCalls[c].id \in wPending
        /\ wSettled[wCalls[d].id] = 1

WaiterWritesAfterReady ==
    [][\A c \in Callers : wCalls[c].at = "starting" /\ wCalls'[c].at = "pending"
            => wProcs'[wChild'] = "ready"]_vars

\* No runAsrViaPython call is under way.
NoCallUnderWay == asrCall.at \in {"idle", "returned", "threw"}

\* The child of the current worker exits in this step with no call under way.
IdleExit == NoCallUnderWay /\ ChildDies

\* C39: when the recognizer exits with no request pending, the call record
\* is left as it was and no process is spawned, then or at any later step
\* that is not a call; the next call spawns a process that was never
\* started before and waits; its request is written only in the step in
\* which that process prints ready, and it returns only on an answer of the
\* process that is then the worker's child and ready.
C39_IdleExitIsBenign ==
    /\ [][IdleExit => /\ asrCall' = asrCall
                      /\ workerChild' = 0
                      /\ \A p \in Pids : procs'[p] = "starting" => procs[p] = "starting"]_vars
    /\ [][(NoCallUnderWay /\ asrCall'.at \in {"idle", "returned", "threw"})
            => \A p \in Pids : procs'[p] = "starting" => procs[p] = "starting"]_vars
    /\ [][(NoCallUnderWay /\ workerChild = 0 /\ asrCalls' # asrCalls)
            => /\ asrCall'.at = "starting"
               /\ asrCall'.sends = 0
               /\ procs[workerChild'] = "unborn"
               /\ procs'[workerChild'] = "starting"]_vars
    /\ [][(asrCall.at = "starting" /\ asrCall'.at = "sent")
            => procs[workerChild] = "starting" /\ procs'[workerChild'] = "ready"
               /\ workerChild' = workerChild]_vars
    /\ [][(asrCall.at = "sent" /\ asrCall'.at = "returned")
            => procs[workerChild] = "ready" /\ UNCHANGED <<procs, workerChild>>]_vars

\* A second call was served by a second process after the first process,
\* which served the first call, had exited with no call under way.
C39_Witness ==
    /\ asrCalls = 2
    /\ asrCall.at = "returned"
    /\ asrCall.attempt = 1
    /\ asrCall.sends = 1
    /\ procs[1] = "exited"
    /\ workerChild = 2
    /\ procs[2] = "ready"

====
